---- MODULE Spec2Model ----
(***************************************************************************)
(* Model of the tabular engine of epoldata_to_stream:                      *)
(*   - apply_column_types            (data_processing.py)  SpecCoerce      *)
(*   - pipeline_tratatamento_dados,  aggregate_column_to_list,             *)
(*     merge_dataframes, confirm_cols_exploded            SpecPipeline,    *)
(*                                                         SpecPack        *)
(*   - prepare_agg_data              (src/gui_components.py) SpecAgg       *)
(*   - display_timeseries_tab        (src/gui_components.py) SpecTime,     *)
(*                                                         SpecViews       *)
(*   - detect_column_types, display_crosstab_tab           SpecProfile     *)
(*   - the caller's table across the core operations       SpecFrame       *)
(*   - main, create_sidebar, display_general_table_tab,                    *)
(*     state_manager (app.py, src/)                        SpecSession     *)
(*   - the session of the type-configuration page (main.py) SpecMain       *)
(*                                                                         *)
(* A table is a record [cols, rows]: cols is the ordered sequence of       *)
(* column names, rows the sequence of rows, each row a function from the   *)
(* column names to cells.  A cell is a tagged value with one fixed shape   *)
(* [t, s, n, l] (tag, string payload, integer payload, list payload) so    *)
(* that any two cells can be compared.  Column names and cell strings are  *)
(* written without accents ("Proc. Identificacao" for the source's         *)
(* 'Proc. Identificação').                                                 *)
(***************************************************************************)
EXTENDS Integers, Sequences, FiniteSets, TLC

VARIABLES
    \* apply_column_types
    df, type_mapping, df_typed, conversion_log, idx, pc, raised_count,
    \* pipeline_tratatamento_dados
    xlsx_principal, xlsx_complementar,
    path_parquet_df_principal, path_parquet_df_complementar,
    df_principal, df_complementar, cols_exploded,
    df_complementar_tratado, df_completo, df_final, written, ppc,
    \* prepare_agg_data
    agg_in, col_agg, df_agg, note, agg_data, apc,
    \* display_timeseries_tab
    time_in, date_col, granularity, segment_col, df_time, time_series_data, tpc,
    \* detect_column_types, display_crosstab_tab
    profile_in, column_info, low_cardinality_cols, fpc,
    \* the caller's table across calls of the core operations
    heap, df_before, last_call,
    \* the session of the dashboard (app.py)
    session_state, sort_col, sort_order, df_tratado, df_filtered, df_shown,
    callback, rendered, cleared,
    \* the session of the type-configuration page (main.py)
    main_state

coerceVars == <<df, type_mapping, df_typed, conversion_log, idx, pc, raised_count>>
pipeVars == <<xlsx_principal, xlsx_complementar,
              path_parquet_df_principal, path_parquet_df_complementar,
              df_principal, df_complementar, cols_exploded,
              df_complementar_tratado, df_completo, df_final, written, ppc>>
aggVars == <<agg_in, col_agg, df_agg, note, agg_data, apc>>
timeVars == <<time_in, date_col, granularity, segment_col, df_time,
              time_series_data, tpc>>
profileVars == <<profile_in, column_info, low_cardinality_cols, fpc>>
frameVars == <<heap, df_before, last_call>>
sessionVars == <<session_state, sort_col, sort_order, df_tratado, df_filtered,
                 df_shown, callback, rendered, cleared>>
mainVars == <<main_state>>
appVars == <<sessionVars, mainVars>>
viewVars == <<timeVars, profileVars, frameVars, appVars>>
nonSessionVars == <<coerceVars, pipeVars, aggVars, timeVars, profileVars, frameVars, mainVars>>
nonMainVars == <<coerceVars, pipeVars, aggVars, timeVars, profileVars, frameVars, sessionVars>>
vars == <<coerceVars, pipeVars, aggVars, viewVars>>

(***************************************************************************)
(* Bounds of the model.                                                    *)
(***************************************************************************)
MaxRows == 2
MaxPackRows == 3
MaxPipeRows == 2
MaxAggRows == 2
MaxTimeRows == 2
MaxProfileRows == 3
MaxFrameRows == 2
MaxSessionRows == 2
MaxMainRows == 2

(***************************************************************************)
(* Cells.                                                                  *)
(***************************************************************************)
Null == [t |-> "null", s |-> "", n |-> 0, l |-> <<>>]
Str(x) == [t |-> "str", s |-> x, n |-> 0, l |-> <<>>]
Num(k) == [t |-> "num", s |-> "", n |-> k, l |-> <<>>]
Bool(b) == [t |-> "bool", s |-> "", n |-> IF b THEN 1 ELSE 0, l |-> <<>>]
Dt(d) == [t |-> "dt", s |-> d, n |-> 0, l |-> <<>>]
Lst(q) == [t |-> "list", s |-> "", n |-> 0, l |-> q]
Tup(q) == [t |-> "tuple", s |-> "", n |-> 0, l |-> q]

Range(q) == {q[i] : i \in DOMAIN q}

\* pandas isna(): NaN, None and NaT are all null.
isna(c) == c.t = "null"

\* Number of null cells of a column (Series.isna().sum()).
null_count(column) == Cardinality({i \in DOMAIN column : isna(column[i])})

\* Series.nunique(): distinct non-null values.
nunique(column) == Cardinality({column[i] : i \in DOMAIN column} \ {Null})

(***************************************************************************)
(* Tables.                                                                 *)
(***************************************************************************)
EmptyTable == [cols |-> <<>>, rows |-> <<>>]
NRows(T) == Len(T.rows)
NCols(T) == Len(T.cols)
HasCol(T, c) == c \in Range(T.cols)
Column(T, c) == [i \in 1..Len(T.rows) |-> T.rows[i][c]]
SetColumn(T, c, column) ==
    [T EXCEPT !.rows = [i \in 1..Len(T.rows) |-> [T.rows[i] EXCEPT ![c] = column[i]]]]

\* All tables over the columns cs whose rows are drawn from rowKinds, with at
\* most n rows.
TablesOf(cs, rowKinds, n) ==
    {[cols |-> cs, rows |-> r] : r \in UNION {[1..k -> rowKinds] : k \in 0..n}}

(***************************************************************************)
(* Conversions of one cell, as pandas / Python compute them.               *)
(***************************************************************************)
\* repr() of a list element: a quoted string, or nan for a null.
ElemRepr(c) == IF c.t = "str" THEN "'" \o c.s \o "'" ELSE "nan"

RECURSIVE JoinRepr(_, _)
JoinRepr(q, i) ==
    IF i > Len(q) THEN ""
    ELSE IF i = Len(q) THEN ElemRepr(q[i])
    ELSE ElemRepr(q[i]) \o ", " \o JoinRepr(q, i + 1)

\* str(list), e.g. "['roubo', 'furto']".
ListRepr(q) == "[" \o JoinRepr(q, 1) \o "]"

\* str(x) of a float produced by pd.to_numeric.
FloatRepr(k) ==
    CASE k = 10 -> "10.0"
      [] k = 20 -> "20.0"
      [] k = 0 -> "0.0"
      [] k = 1 -> "1.0"
      [] OTHER -> "<float>"

\* str(x) for a non-null cell.
PyStr(c) ==
    CASE c.t = "str" -> c.s
      [] c.t = "num" -> FloatRepr(c.n)
      [] c.t = "bool" -> (IF c.n = 1 THEN "True" ELSE "False")
      [] c.t = "dt" -> c.s
      [] c.t = "list" -> ListRepr(c.l)
      [] OTHER -> "nan"

\* Series.fillna("").apply(str): the stringification rule, nulls become "".
stringify(c) == IF isna(c) THEN Str("") ELSE Str(PyStr(c))

\* The strings of the model that pd.to_numeric parses, with their values.
NumericLiteral(x) ==
    CASE x = "10" -> 10
      [] x = "20" -> 20
      [] x = "0" -> 0
      [] x = "1" -> 1
      [] OTHER -> -1
IsNumericLiteral(x) == x \in {"10", "20", "0", "1"}

\* Variant: only strings are parsed; a cell that is already a number is lost.
to_numeric_strings_only(c) ==
    IF c.t = "str" /\ IsNumericLiteral(c.s) THEN Num(NumericLiteral(c.s)) ELSE Null

\* pd.to_numeric(errors="coerce") on one scalar cell.
to_numeric(c) ==
    CASE c.t = "str" -> (IF IsNumericLiteral(c.s) THEN Num(NumericLiteral(c.s)) ELSE Null)
      [] c.t = "num" -> c
      [] c.t = "bool" -> Num(c.n)
      [] OTHER -> Null

\* The strings of the model that pd.to_datetime parses.
IsDateLiteral(x) == x \in {"2024-01-05", "2024-01-20", "2024-02-01"}

\* pd.to_datetime(errors="coerce") on one scalar cell.
to_datetime(c) ==
    CASE c.t = "str" -> (IF IsDateLiteral(c.s) THEN Dt(c.s) ELSE Null)
      [] c.t = "dt" -> c
      [] OTHER -> Null

\* str.lower() on the strings of the model.
Lower(x) ==
    CASE x = "Sim" -> "sim"
      [] x = "True" -> "true"
      [] x = "False" -> "false"
      [] OTHER -> x

\* bool_map of apply_column_types; a token outside the map gives null.
bool_map(x) ==
    CASE x \in {"true", "1", "yes", "sim"} -> Bool(TRUE)
      [] x \in {"false", "0", "no", "nao"} -> Bool(FALSE)
      [] OTHER -> Null

\* Series.astype(str).str.lower().map(bool_map) on one cell.
to_boolean(c) == bool_map(Lower(PyStr(c)))

(***************************************************************************)
(* apply_column_types (data_processing.py).                                *)
(***************************************************************************)
TargetTypes == {"string", "numeric", "datetime", "boolean"}

LogEntry(status, c, target, lost, msg) ==
    [status |-> status, col |-> c, target |-> target, lost |-> lost, msg |-> msg]

\* df_typed[col] = df_typed[col].fillna("").apply(str)
convert_string(T, c) == SetColumn(T, c, [i \in 1..NRows(T) |-> stringify(T.rows[i][c])])

\* Variant: the rows whose value fails numeric parsing are dropped.
convert_numeric_dropna(T, c) ==
    LET R == SetColumn(T, c, [i \in 1..NRows(T) |-> to_numeric(T.rows[i][c])])
    IN [R EXCEPT !.rows = SelectSeq(R.rows, LAMBDA r : ~isna(r[c]))]

\* df_typed[col] = pd.to_numeric(df_typed[col], errors="coerce")
convert_numeric(T, c) == SetColumn(T, c, [i \in 1..NRows(T) |-> to_numeric(T.rows[i][c])])

\* df_typed[col] = pd.to_datetime(df_typed[col], errors="coerce")
convert_datetime(T, c) == SetColumn(T, c, [i \in 1..NRows(T) |-> to_datetime(T.rows[i][c])])

\* df_typed[col] = df_typed[col].astype(str).str.lower().map(bool_map)
convert_boolean(T, c) == SetColumn(T, c, [i \in 1..NRows(T) |-> to_boolean(T.rows[i][c])])

\* Whether the library call of a branch raises is decided by pandas, not by
\* this repository: on a column holding a non-scalar (list) cell to_numeric /
\* to_datetime either coerce the cell to null or raise TypeError, depending on
\* the pandas build.  Both outcomes are explored.
LibraryOutcomes(target, column) ==
    IF target \in {"numeric", "datetime"} /\ \E i \in DOMAIN column : column[i].t = "list"
    THEN {TRUE, FALSE}
    ELSE {FALSE}

\* Variant: the log line reports the nulls after the conversion, not the
\* difference.
loss_entry_new_nulls(c, target, original_nulls, new_nulls) ==
    IF new_nulls > 0 THEN LogEntry("loss", c, target, new_nulls, "")
    ELSE LogEntry("ok", c, target, 0, "")

\* The log line of a numeric / datetime conversion: lost values when > 0.
loss_entry(c, target, original_nulls, new_nulls) ==
    IF new_nulls - original_nulls > 0
    THEN LogEntry("loss", c, target, new_nulls - original_nulls, "")
    ELSE LogEntry("ok", c, target, 0, "")

\* The body of the try block for one column: [raised, df, entries, msg].
try_convert(T, c, target, raised) ==
    LET original_nulls == null_count(Column(T, c))
    IN IF raised
       THEN [raised |-> TRUE, df |-> T, entries |-> <<>>, msg |-> "Invalid object type"]
       ELSE CASE target = "string" ->
                   [raised |-> FALSE, df |-> convert_string(T, c),
                    entries |-> <<LogEntry("ok", c, target, 0, "")>>, msg |-> ""]
              [] target = "numeric" ->
                   LET R == convert_numeric(T, c)
                   IN [raised |-> FALSE, df |-> R,
                       entries |-> <<loss_entry(c, target, original_nulls,
                                                null_count(Column(R, c)))>>,
                       msg |-> ""]
              [] target = "datetime" ->
                   LET R == convert_datetime(T, c)
                   IN [raised |-> FALSE, df |-> R,
                       entries |-> <<loss_entry(c, target, original_nulls,
                                                null_count(Column(R, c)))>>,
                       msg |-> ""]
              [] target = "boolean" ->
                   [raised |-> FALSE, df |-> convert_boolean(T, c),
                    entries |-> <<LogEntry("ok", c, target, 0, "")>>, msg |-> ""]
              [] OTHER ->
                   [raised |-> FALSE, df |-> T, entries |-> <<>>, msg |-> ""]

\* Variant: the except block lets the exception escape.
except_reraise(T, c, target, msg) ==
    [raised |-> TRUE, df |-> T, entries |-> <<>>, msg |-> msg]

\* Variant: the except block falls back to string without a log line.
except_silent(T, c, target, msg) ==
    [raised |-> FALSE, df |-> SetColumn(T, c, [i \in 1..NRows(T) |-> stringify(T.rows[i][c])]),
     entries |-> <<>>, msg |-> msg]

\* The except block: the column is kept as a compatible string and the log
\* gains the failure entry with str(e).
except_handler(T, c, target, msg) ==
    [raised |-> FALSE, df |-> SetColumn(T, c, [i \in 1..NRows(T) |-> stringify(T.rows[i][c])]),
     entries |-> <<LogEntry("fail", c, target, 0, msg)>>, msg |-> msg]

\* One iteration of the loop body for a column present in the table.
convert_column(T, c, target, raised) ==
    LET r == try_convert(T, c, target, raised)
    IN IF r.raised THEN except_handler(T, c, target, r.msg) ELSE r

\* The whole function when no library call raises: [df, log].
RECURSIVE apply_from(_, _, _, _)
apply_from(T, M, i, log) ==
    IF i > Len(M) THEN [df |-> T, log |-> log]
    ELSE IF ~HasCol(T, M[i][1]) THEN apply_from(T, M, i + 1, log)
    ELSE LET r == convert_column(T, M[i][1], M[i][2], FALSE)
         IN apply_from(r.df, M, i + 1, log \o r.entries)

apply_column_types(T, M) == apply_from(T, M, 1, <<>>)

(***************************************************************************)
(* Inputs of SpecCoerce.                                                   *)
(***************************************************************************)
ColDuracao == "Duracao Dias"
ColSituacao == "Situacao"
ColAbsent == "Data Fato"

CellsDuracao == {Null, Str("10"), Str("abc"), Lst(<<Str("roubo"), Str("furto")>>)}
CellsSituacao == {Null, Str("Sim")}

CoerceRow(a, b) == [c \in {ColDuracao, ColSituacao} |-> IF c = ColDuracao THEN a ELSE b]
CoerceRows == {CoerceRow(a, b) : a \in CellsDuracao, b \in CellsSituacao}
\* Scenario: the numeric column "10", "abc", "20".
CoerceScenario ==
    [cols |-> <<ColDuracao, ColSituacao>>,
     rows |-> <<CoerceRow(Str("10"), Str("Sim")), CoerceRow(Str("abc"), Null),
                CoerceRow(Str("20"), Str("Sim"))>>]
CoerceTables ==
    TablesOf(<<ColDuracao, ColSituacao>>, CoerceRows, MaxRows) \cup {CoerceScenario}

\* A type mapping is a dict: an ordered sequence of (column, target) pairs
\* with distinct columns.  The target of an absent column is never read.
MapEntries ==
    ({ColDuracao, ColSituacao} \X TargetTypes) \cup {<<ColAbsent, "string">>}
MapCols == {ColDuracao, ColSituacao, ColAbsent}
Mappings ==
    UNION {{m \in [1..k -> MapEntries] :
              \A i, j \in 1..k : i # j => m[i][1] # m[j][1]} :
           k \in 0..Cardinality(MapCols)}

IdleCoerce ==
    /\ df = EmptyTable /\ type_mapping = <<>> /\ df_typed = EmptyTable
    /\ conversion_log = <<>> /\ idx = 0 /\ pc = "idle" /\ raised_count = 0

\* df_typed = df.copy(); df_typed = df_typed.reset_index(drop=True); log = []
\* (rows are identified by position, so resetting the index changes nothing).
CopyInput ==
    /\ pc = "start"
    /\ df_typed' = df
    /\ conversion_log' = <<>>
    /\ idx' = 1
    /\ pc' = "loop"
    /\ UNCHANGED <<df, type_mapping, raised_count, pipeVars, aggVars, viewVars>>

\* if col not in df_typed.columns: continue
SkipAbsentColumn ==
    /\ pc = "loop"
    /\ idx <= Len(type_mapping)
    /\ ~HasCol(df_typed, type_mapping[idx][1])
    /\ idx' = idx + 1
    /\ UNCHANGED <<df, type_mapping, df_typed, conversion_log, pc, raised_count,
                   pipeVars, aggVars, viewVars>>

\* try: ... except Exception as e: ... for one mapped column of the table.
\* raised_count is a history variable: the number of times a library call of
\* the try block has raised so far.
ConvertColumn ==
    /\ pc = "loop"
    /\ idx <= Len(type_mapping)
    /\ HasCol(df_typed, type_mapping[idx][1])
    /\ \E raised \in LibraryOutcomes(type_mapping[idx][2],
                                     Column(df_typed, type_mapping[idx][1])) :
         LET r == convert_column(df_typed, type_mapping[idx][1],
                                 type_mapping[idx][2], raised)
         IN /\ raised_count' = raised_count + (IF raised THEN 1 ELSE 0)
            /\ IF r.raised
               THEN /\ pc' = "raised"
                    /\ UNCHANGED <<df_typed, conversion_log, idx>>
               ELSE /\ df_typed' = r.df
                    /\ conversion_log' = conversion_log \o r.entries
                    /\ idx' = idx + 1
                    /\ pc' = pc
    /\ UNCHANGED <<df, type_mapping, pipeVars, aggVars, viewVars>>

\* return df_typed, conversion_log
ReturnTyped ==
    /\ pc = "loop"
    /\ idx > Len(type_mapping)
    /\ pc' = "done"
    /\ UNCHANGED <<df, type_mapping, df_typed, conversion_log, idx, raised_count,
                   pipeVars, aggVars, viewVars>>


(***************************************************************************)
(* The relation reconciler (data_processing.py): aggregate_column_to_list, *)
(* merge_dataframes, confirm_cols_exploded.                                *)
(***************************************************************************)
ColKey == "Proc. Identificacao"
ColPenal == "Proc. Tipo Penal"
ColLei == "Proc. Lei"
ColTipo == "Proc. Tipo"

\* The key values of the model in sort order (groupby sorts its group keys).
KeyOrder == <<Str("A"), Str("B"), Str("C")>>

Min(S) == CHOOSE x \in S : \A y \in S : x <= y

\* The positions of the rows of T whose key is k, ascending.
group_rows(T, key, k) ==
    SelectSeq([i \in 1..NRows(T) |-> i], LAMBDA i : T.rows[i][key] = k)

\* df.groupby(key): the distinct non-null keys, sorted (dropna=True, sort=True).
group_keys(T, key) ==
    SelectSeq(KeyOrder, LAMBDA k : \E i \in 1..NRows(T) : T.rows[i][key] = k)

\* The values of column c in the rows at positions g.
group_values(T, c, g) == [j \in 1..Len(g) |-> T.rows[g[j]][c]]

\* Variant: the value of the first row of the group, null or not.
agg_first_row(q) == q[1]

\* The "first" aggregation of pandas: the first non-null value of the group,
\* null when the group holds none.
agg_first(q) ==
    LET nn == {i \in DOMAIN q : ~isna(q[i])}
    IN IF nn = {} THEN Null ELSE q[Min(nn)]

\* Variant: the distinct values of the group, first occurrences in row order.
agg_list_unique(q) ==
    Lst(LET keep == {i \in DOMAIN q : \A j \in 1..(i - 1) : q[j] # q[i]}
        IN [n \in 1..Cardinality(keep) |->
              q[CHOOSE i \in keep : Cardinality({j \in keep : j <= i}) = n]])

\* The list aggregation: every value of the group in row order.
agg_list(q) == Lst(q)

\* Variant: no grouping, the table is returned as it came.
aggregate_column_to_list_unpacked(T, key, agg) == [raised |-> FALSE, df |-> T]

\* aggregate_column_to_list(df, key_column, column_to_aggregate):
\* [raised, df]; raises ValueError when a column is missing.
aggregate_column_to_list(T, key, agg) ==
    IF ~HasCol(T, key) \/ ~HasCol(T, agg)
    THEN [raised |-> TRUE, df |-> EmptyTable]
    ELSE LET others == SelectSeq(T.cols, LAMBDA c : c \notin {key, agg})
             cs == <<key>> \o others \o <<agg>>
             ks == group_keys(T, key)
             packed(k) ==
                 LET g == group_rows(T, key, k)
                 IN [c \in Range(cs) |->
                       IF c = key THEN k
                       ELSE IF c = agg THEN agg_list(group_values(T, c, g))
                       ELSE agg_first(group_values(T, c, g))]
         IN [raised |-> FALSE,
             df |-> [cols |-> cs, rows |-> [j \in 1..Len(ks) |-> packed(ks[j])]]]

\* The rows a left row yields in pd.merge: one per matching right row (equal
\* keys, null matching null), or, for how="left", one row with null in every
\* right column when nothing matches.
merged_rows_of(lrow, R, key, how, cs, rightCols) ==
    LET m == SelectSeq([j \in 1..NRows(R) |-> j], LAMBDA j : R.rows[j][key] = lrow[key])
        joined(rrow) == [c \in Range(cs) |-> IF c \in rightCols THEN rrow[c] ELSE lrow[c]]
        unmatched == [c \in Range(cs) |-> IF c \in rightCols THEN Null ELSE lrow[c]]
    IN IF Len(m) > 0 THEN [j \in 1..Len(m) |-> joined(R.rows[m[j]])]
       ELSE IF how = "left" THEN <<unmatched>>
       ELSE <<>>

RECURSIVE merge_from(_, _, _, _, _, _, _)
merge_from(L, R, key, how, cs, rightCols, i) ==
    IF i > NRows(L) THEN <<>>
    ELSE merged_rows_of(L.rows[i], R, key, how, cs, rightCols)
         \o merge_from(L, R, key, how, cs, rightCols, i + 1)

\* pd.merge(df_left, df_right, on=key_column, how=how) behind the check of
\* merge_dataframes: [raised, df]; ValueError when the key is missing on a
\* side.  The tables of the model share no column but the key, so pandas adds
\* no _x / _y suffix.
merge_on(L, R, key, how) ==
    IF ~HasCol(L, key) \/ ~HasCol(R, key)
    THEN [raised |-> TRUE, df |-> EmptyTable]
    ELSE LET rightSeq == SelectSeq(R.cols, LAMBDA c : c # key)
             cs == L.cols \o rightSeq
         IN [raised |-> FALSE,
             df |-> [cols |-> cs,
                     rows |-> merge_from(L, R, key, how, cs, Range(rightSeq), 1)]]

\* Variant: the how argument is dropped and the default 'inner' is used.
merge_dataframes_inner(L, R, key, how) == merge_on(L, R, key, "inner")

\* merge_dataframes(df_left, df_right, key_column, how)
merge_dataframes(L, R, key, how) == merge_on(L, R, key, how)

\* confirm_cols_exploded(df, key_column): [raised, none, cols].  The function
\* returns None (no return statement is reached) when no key is duplicated.
\* df.duplicated treats null keys as equal to each other; groupby then drops
\* the null keys; nunique counts distinct non-null values.
confirm_cols_exploded(T, key) ==
    IF ~HasCol(T, key) THEN [raised |-> TRUE, none |-> FALSE, cols |-> <<>>]
    ELSE LET dup == {i \in 1..NRows(T) :
                       \E j \in 1..NRows(T) : j # i /\ T.rows[j][key] = T.rows[i][key]}
             ks == {T.rows[i][key] : i \in dup} \ {Null}
             varies(c) == \E k \in ks : nunique(group_values(T, c, group_rows(T, key, k))) > 1
         IN IF dup = {}
            THEN [raised |-> FALSE, none |-> TRUE, cols |-> <<>>]
            ELSE [raised |-> FALSE, none |-> FALSE,
                  cols |-> SelectSeq(T.cols, LAMBDA c : c # key /\ varies(c))]


(***************************************************************************)
(* pipeline_tratatamento_dados (data_processing.py).                       *)
(***************************************************************************)
\* colunas_uteis, type_mapping and rename_cols_mapping of the module,
\* restricted to the columns of the model.
colunas_uteis == <<ColTipo, ColKey, ColLei, ColPenal>>
pipeline_type_mapping ==
    <<<<ColTipo, "string">>, <<ColKey, "string">>, <<ColPenal, "string">>>>
rename_cols_mapping(c) ==
    CASE c = ColTipo -> "Tipo"
      [] c = ColKey -> "Caso Id"
      [] c = ColPenal -> "Tipo Penal"
      [] OTHER -> c

\* filter_columns: the columns of columns_to_keep that exist, in that order.
filter_columns(T, keep) ==
    LET cs == SelectSeq(keep, LAMBDA c : HasCol(T, c))
    IN [cols |-> cs,
        rows |-> [i \in 1..NRows(T) |-> [c \in Range(cs) |-> T.rows[i][c]]]]

\* DataFrame.rename(columns=rename_cols_mapping)
rename_columns(T) ==
    LET cs == [j \in 1..NCols(T) |-> rename_cols_mapping(T.cols[j])]
        old(n) == CHOOSE c \in Range(T.cols) : rename_cols_mapping(c) = n
    IN [cols |-> cs,
        rows |-> [i \in 1..NRows(T) |-> [n \in Range(cs) |-> T.rows[i][old(n)]]]]

NoFile == "None"
FilePrincipal == "Casos.parquet"
FileComplementar == "Casos_Complementar.parquet"
FileCompleto == "Casos_Completo.parquet"
FileTratado == "Casos_Tratado.parquet"

\* Variant: only the presence of the key column is checked.
principal_key_present(T) == HasCol(T, ColKey)

\* The principal table's check: the key column exists and has as many
\* distinct values as the table has rows.
principal_key_unique(T) ==
    IF HasCol(T, ColKey) THEN nunique(Column(T, ColKey)) = NRows(T) ELSE FALSE

\* Variant: the check accepts any list that contains 'Proc. Tipo Penal'.
exploded_includes_penal(r) == ~r.raised /\ ~r.none /\ ColPenal \in Range(r.cols)

\* The complementary table's check:
\* confirm_cols_exploded(...) == ['Proc. Tipo Penal'] (None == [...] is False).
exploded_is_penal(r) == ~r.raised /\ ~r.none /\ r.cols = <<ColPenal>>

\* Inputs: the contents of the two spreadsheets.
KeyCells == {Str("A"), Str("B"), Null}
PrincipalRow(k) == [c \in {ColKey, ColTipo} |-> IF c = ColKey THEN k ELSE Str("IPL")]
PrincipalRowNoKey == [c \in {ColTipo} |-> Str("IPL")]
PrincipalTables ==
    TablesOf(<<ColKey, ColTipo>>, {PrincipalRow(k) : k \in KeyCells}, MaxPipeRows)
    \cup TablesOf(<<ColTipo>>, {PrincipalRowNoKey}, MaxPipeRows)

ComplementarRow(k, lei, penal) ==
    [c \in {ColKey, ColLei, ColPenal} |->
       IF c = ColKey THEN k ELSE IF c = ColLei THEN lei ELSE penal]
LeiCells == {Null, Str("L1"), Str("L2")}
ComplementarTables ==
    TablesOf(<<ColKey, ColLei, ColPenal>>,
             {ComplementarRow(k, lei, penal) :
                k \in KeyCells, lei \in LeiCells, penal \in {Str("roubo"), Str("furto")}},
             MaxPipeRows)

NoExploded == [raised |-> FALSE, none |-> TRUE, cols |-> <<>>]

\* A spreadsheet on disk: missing, or holding a table.
MissingFile == [exists |-> FALSE, table |-> EmptyTable]
FilesOf(tables) == {[exists |-> TRUE, table |-> T] : T \in tables} \cup {MissingFile}

IdlePipe ==
    /\ xlsx_principal = MissingFile /\ xlsx_complementar = MissingFile
    /\ path_parquet_df_principal = NoFile /\ path_parquet_df_complementar = NoFile
    /\ df_principal = EmptyTable /\ df_complementar = EmptyTable
    /\ cols_exploded = NoExploded
    /\ df_complementar_tratado = EmptyTable /\ df_completo = EmptyTable
    /\ df_final = EmptyTable /\ written = {} /\ ppc = "idle"

\* convert_spreadsheet_to_parquet on both spreadsheets: each returns the path
\* of the file it wrote, or None when the spreadsheet is missing or unreadable.
ConvertSpreadsheets ==
    /\ ppc = "start"
    /\ path_parquet_df_principal' =
           IF xlsx_principal.exists THEN FilePrincipal ELSE NoFile
    /\ path_parquet_df_complementar' =
           IF xlsx_complementar.exists THEN FileComplementar ELSE NoFile
    /\ written' = written
                  \cup (IF xlsx_principal.exists THEN {FilePrincipal} ELSE {})
                  \cup (IF xlsx_complementar.exists THEN {FileComplementar} ELSE {})
    /\ ppc' = "converted"
    /\ UNCHANGED <<xlsx_principal, xlsx_complementar, df_principal, df_complementar,
                   cols_exploded, df_complementar_tratado, df_completo, df_final,
                   coerceVars, aggVars, viewVars>>

\* df_principal = pd.read_parquet(...); assert key present and unique.
ReadPrincipal ==
    /\ ppc = "converted"
    /\ IF path_parquet_df_principal = NoFile
       THEN /\ ppc' = "failed_read_principal"
            /\ UNCHANGED df_principal
       ELSE /\ df_principal' = xlsx_principal.table
            /\ ppc' = IF principal_key_unique(xlsx_principal.table)
                      THEN "principal_ok" ELSE "failed_assert_principal"
    /\ UNCHANGED <<xlsx_principal, xlsx_complementar, path_parquet_df_principal,
                   path_parquet_df_complementar, df_complementar, cols_exploded,
                   df_complementar_tratado, df_completo, df_final, written,
                   coerceVars, aggVars, viewVars>>

\* df_complementar = pd.read_parquet(...);
\* assert confirm_cols_exploded(df_complementar, key) == ['Proc. Tipo Penal']
ReadComplementar ==
    /\ ppc = "principal_ok"
    /\ IF path_parquet_df_complementar = NoFile
       THEN /\ ppc' = "failed_read_complementar"
            /\ UNCHANGED <<df_complementar, cols_exploded>>
       ELSE LET r == confirm_cols_exploded(xlsx_complementar.table, ColKey)
            IN /\ df_complementar' = xlsx_complementar.table
               /\ cols_exploded' = r
               /\ ppc' = IF exploded_is_penal(r)
                         THEN "complementar_ok" ELSE "failed_assert_complementar"
    /\ UNCHANGED <<xlsx_principal, xlsx_complementar, path_parquet_df_principal,
                   path_parquet_df_complementar, df_principal,
                   df_complementar_tratado, df_completo, df_final, written,
                   coerceVars, aggVars, viewVars>>

\* df_complementar_tratado = aggregate_column_to_list(df_complementar, ...)
Pack ==
    /\ ppc = "complementar_ok"
    /\ LET r == aggregate_column_to_list(df_complementar, ColKey, ColPenal)
       IN IF r.raised
          THEN ppc' = "failed_pack" /\ UNCHANGED df_complementar_tratado
          ELSE ppc' = "packed" /\ df_complementar_tratado' = r.df
    /\ UNCHANGED <<xlsx_principal, xlsx_complementar, path_parquet_df_principal,
                   path_parquet_df_complementar, df_principal, df_complementar,
                   cols_exploded, df_completo, df_final, written,
                   coerceVars, aggVars, viewVars>>

\* df_completo = merge_dataframes(df_principal, df_complementar_tratado, key, 'left')
Merge ==
    /\ ppc = "packed"
    /\ LET r == merge_dataframes(df_principal, df_complementar_tratado, ColKey, "left")
       IN IF r.raised
          THEN ppc' = "failed_merge" /\ UNCHANGED df_completo
          ELSE ppc' = "merged" /\ df_completo' = r.df
    /\ UNCHANGED <<xlsx_principal, xlsx_complementar, path_parquet_df_principal,
                   path_parquet_df_complementar, df_principal, df_complementar,
                   cols_exploded, df_complementar_tratado, df_final, written,
                   coerceVars, aggVars, viewVars>>

\* The two assertions on df_completo, then df_completo.to_parquet(output_path_0).
WriteCompleto ==
    /\ ppc = "merged"
    /\ IF NRows(df_principal) = NRows(df_completo) /\ NCols(df_principal) < NCols(df_completo)
       THEN ppc' = "completo_written" /\ written' = written \cup {FileCompleto}
       ELSE ppc' = "failed_assert_merged" /\ UNCHANGED written
    /\ UNCHANGED <<xlsx_principal, xlsx_complementar, path_parquet_df_principal,
                   path_parquet_df_complementar, df_principal, df_complementar,
                   cols_exploded, df_complementar_tratado, df_completo, df_final,
                   coerceVars, aggVars, viewVars>>

\* df_reduzido = filter_columns(...); df_final, _ = apply_column_types(...);
\* df_final = df_final.rename(columns=rename_cols_mapping)
Treat ==
    /\ ppc = "completo_written"
    /\ df_final' = rename_columns(
           apply_column_types(filter_columns(df_completo, colunas_uteis),
                              pipeline_type_mapping).df)
    /\ ppc' = "treated"
    /\ UNCHANGED <<xlsx_principal, xlsx_complementar, path_parquet_df_principal,
                   path_parquet_df_complementar, df_principal, df_complementar,
                   cols_exploded, df_complementar_tratado, df_completo, written,
                   coerceVars, aggVars, viewVars>>

\* df_final.to_parquet(output_path); return output_path
WriteTratado ==
    /\ ppc = "treated"
    /\ written' = written \cup {FileTratado}
    /\ ppc' = "done"
    /\ UNCHANGED <<xlsx_principal, xlsx_complementar, path_parquet_df_principal,
                   path_parquet_df_complementar, df_principal, df_complementar,
                   cols_exploded, df_complementar_tratado, df_completo, df_final,
                   coerceVars, aggVars, viewVars>>

(***************************************************************************)
(* aggregate_column_to_list called on its own, on any complementary table. *)
(***************************************************************************)
PenalCells == {Str("roubo"), Str("furto"), Str("estupro")}
PackTables ==
    TablesOf(<<ColKey, ColLei, ColPenal>>,
             {ComplementarRow(k, lei, penal) :
                k \in KeyCells, lei \in LeiCells, penal \in PenalCells},
             MaxPackRows)

PackTable ==
    /\ ppc = "pack_input"
    /\ LET r == aggregate_column_to_list(df_complementar, ColKey, ColPenal)
       IN IF r.raised
          THEN ppc' = "pack_raised" /\ UNCHANGED df_complementar_tratado
          ELSE ppc' = "pack_done" /\ df_complementar_tratado' = r.df
    /\ UNCHANGED <<xlsx_principal, xlsx_complementar, path_parquet_df_principal,
                   path_parquet_df_complementar, df_principal, df_complementar,
                   cols_exploded, df_completo, df_final, written,
                   coerceVars, aggVars, viewVars>>

(***************************************************************************)
(* prepare_agg_data (src/gui_components.py) with the constants of          *)
(* src/config.py.                                                          *)
(***************************************************************************)
KEY_COLUMN_PRINCIPAL == "Caso Id"
NULLS_PLACEHOLDERS_TO_DROP == {"-", "", "None", "<NA>", "nan", "nat", "undefined"}
LIST_COLS_TO_EXPLODE == {"Tipo Penal"}
SemRegistro == "Sem Registro"

\* x.startswith('[') and x.endswith(']') on the strings of the model.
StartsWithBracket(x) == x \in {"['roubo', 'furto']", "['roubo'], ['furto']", "[abc"}
EndsWithBracket(x) == x \in {"['roubo', 'furto']", "['roubo'], ['furto']"}

\* ast.literal_eval on a string of the model: the list it denotes, or an
\* exception (ValueError / SyntaxError) when it is no Python literal.
\* A string of two list displays separated by a comma denotes a tuple of
\* lists.
ParsableLists == {<<Str("roubo"), Str("furto")>>}
ParsableTuples == {<<Lst(<<Str("roubo")>>), Lst(<<Str("furto")>>)>>}
TupleRepr(q) == ListRepr(q[1].l) \o ", " \o ListRepr(q[2].l)
literal_eval(x) ==
    IF \E q \in ParsableLists : ListRepr(q) = x
    THEN [raised |-> FALSE, value |-> Lst(CHOOSE q \in ParsableLists : ListRepr(q) = x)]
    ELSE IF \E q \in ParsableTuples : TupleRepr(q) = x
    THEN [raised |-> FALSE, value |-> Tup(CHOOSE q \in ParsableTuples : TupleRepr(q) = x)]
    ELSE [raised |-> TRUE, value |-> Null]

is_str(c) == c.t = "str"
is_list(c) == c.t = "list"

\* The cells groupby cannot hash: a list, and a tuple that holds lists.
unhashable(c) == c.t \in {"list", "tuple"}

\* Variant: a string cell that starts with '[' is enough.
is_stringified_list_prefix(column) ==
    \E i \in DOMAIN column : is_str(column[i]) /\ StartsWithBracket(column[i].s)

\* series.dropna().apply(lambda x: isinstance(x, str) and x.startswith('[')
\*                                 and x.endswith(']')).any()
is_stringified_list(column) ==
    \E i \in DOMAIN column :
        is_str(column[i]) /\ StartsWithBracket(column[i].s) /\ EndsWithBracket(column[i].s)

\* The cells the parse step hands to ast.literal_eval.
parse_applies(c) == is_str(c) /\ StartsWithBracket(c.s)

\* series.apply(lambda x: ast.literal_eval(x) if (...) else x): [raised, column]
parse_column(column) ==
    [raised |-> \E i \in DOMAIN column :
                    parse_applies(column[i]) /\ literal_eval(column[i].s).raised,
     column |-> [i \in DOMAIN column |->
                   IF parse_applies(column[i]) THEN literal_eval(column[i].s).value
                   ELSE column[i]]]

\* Variant: a tuple counts as a list (isinstance(x, (list, tuple))).
is_exploded_list_or_tuple(column) ==
    \E i \in DOMAIN column : column[i].t \in {"list", "tuple"}

\* Variant: every non-null cell must be a list (.all() for .any()).
is_exploded_list_all(column) ==
    /\ \E i \in DOMAIN column : is_list(column[i])
    /\ \A i \in DOMAIN column : is_list(column[i]) \/ isna(column[i])

\* series.dropna().apply(isinstance, args=(list,)).any()
is_exploded_list(column) == \E i \in DOMAIN column : is_list(column[i])

\* The rows DataFrame.explode makes of one row: one per element of a list
\* cell, one null row for an empty list, the row itself for a scalar or null.
explode_row(row, c) ==
    IF is_list(row[c])
    THEN IF Len(row[c].l) = 0 THEN <<[row EXCEPT ![c] = Null]>>
         ELSE [j \in 1..Len(row[c].l) |-> [row EXCEPT ![c] = row[c].l[j]]]
    ELSE <<row>>

RECURSIVE explode_from(_, _, _)
explode_from(rows, c, i) ==
    IF i > Len(rows) THEN <<>>
    ELSE explode_row(rows[i], c) \o explode_from(rows, c, i + 1)

\* df_agg.explode(_col_agg)
explode(T, c) == [T EXCEPT !.rows = explode_from(T.rows, c, 1)]

\* Variant: only true nulls are filled, the placeholders are kept.
normalize_fillna_only(c) == IF isna(c) THEN Str(SemRegistro) ELSE c

\* .replace(NULLS_PLACEHOLDERS_TO_DROP, "Sem Registro").fillna("Sem Registro")
normalize_category(c) ==
    IF isna(c) THEN Str(SemRegistro)
    ELSE IF is_str(c) /\ c.s \in NULLS_PLACEHOLDERS_TO_DROP THEN Str(SemRegistro)
    ELSE c

\* The categories of the model in the order groupby sorts them (code points).
CategoryOrder ==
    <<Str(""), Str("-"), Str("<NA>"), Str("None"), Str("Sem Registro"),
      Str("['roubo', 'furto']"), Str("['roubo'], ['furto']"), Str("[abc"), Str("furto"), Str("homicidio"), Str("nan"),
      Str("nat"), Str("roubo"), Str("undefined")>>

\* Variant: the metric is the number of rows of the group.
contagem_rows(keys) == Len(keys)

\* The metric of a group: [KEY_COLUMN_PRINCIPAL].nunique()
contagem(keys) == nunique(keys)

\* groupby(_col_agg)[KEY_COLUMN_PRINCIPAL].nunique().reset_index(), then the
\* Percentual column: Contagem / total * 100 as the fraction num / den, or 0.
group_nunique(T, c) ==
    LET cats == SelectSeq(CategoryOrder,
                          LAMBDA k : \E i \in 1..NRows(T) : T.rows[i][c] = k)
        count(k) == contagem(group_values(T, KEY_COLUMN_PRINCIPAL, group_rows(T, c, k)))
    IN [j \in 1..Len(cats) |-> [cat |-> cats[j], Contagem |-> count(cats[j])]]

RECURSIVE SumContagem(_, _)
SumContagem(rows, i) ==
    IF i > Len(rows) THEN 0 ELSE rows[i].Contagem + SumContagem(rows, i + 1)

\* Variant: the percentage is taken over the distinct keys of the whole input
\* table instead of the sum of the counts of the result.
with_percentual_population(rows) ==
    LET population == nunique(Column(agg_in, KEY_COLUMN_PRINCIPAL))
    IN [j \in 1..Len(rows) |->
          [cat |-> rows[j].cat, Contagem |-> rows[j].Contagem,
           Percentual |-> IF population > 0
                          THEN [num |-> rows[j].Contagem * 100, den |-> population]
                          ELSE [num |-> 0, den |-> 1]]]

\* Variant: the division is made without the test of the total.
with_percentual_unguarded(rows) ==
    LET total_casos == SumContagem(rows, 1)
    IN [j \in 1..Len(rows) |->
          [cat |-> rows[j].cat, Contagem |-> rows[j].Contagem,
           Percentual |-> [num |-> rows[j].Contagem * 100, den |-> total_casos]]]

\* total_casos = agg_data['Contagem'].sum(); Percentual = Contagem /
\* total_casos * 100 when total_casos > 0, else 0.
with_percentual(rows) ==
    LET total_casos == SumContagem(rows, 1)
    IN [j \in 1..Len(rows) |->
          [cat |-> rows[j].cat, Contagem |-> rows[j].Contagem,
           Percentual |-> IF total_casos > 0
                          THEN [num |-> rows[j].Contagem * 100, den |-> total_casos]
                          ELSE [num |-> 0, den |-> 1]]]

\* Inputs: a table with the key column and one category column.
CasoCells == {Str("K1"), Str("K2"), Null}
CategoryCells ==
    {Null, Str("roubo"), Str("['roubo', 'furto']"), Str("['roubo'], ['furto']"),
     Str("[abc"),
     Lst(<<Str("roubo"), Str("furto")>>), Lst(<<Str("-"), Str("roubo")>>),
     Lst(<<Null, Str("furto")>>), Lst(<<>>), Lst(<<Str("homicidio")>>)}
    \cup {Str(p) : p \in NULLS_PLACEHOLDERS_TO_DROP}
AggColumns == {"Tipo Penal", "Situacao"}
AggRow(c, k, v) == [x \in {KEY_COLUMN_PRINCIPAL, c} |-> IF x = c THEN v ELSE k]
AggTables(c) ==
    TablesOf(<<KEY_COLUMN_PRINCIPAL, c>>,
             {AggRow(c, k, v) : k \in CasoCells, v \in CategoryCells}, MaxAggRows)

\* aggregate_column_to_list followed by merge_dataframes(how='left') on any
\* pair of tables, without the assertions of the pipeline.
ReconcilePack ==
    /\ ppc = "reconcile_input"
    /\ LET r == aggregate_column_to_list(df_complementar, ColKey, ColPenal)
       IN IF r.raised
          THEN ppc' = "reconcile_raised" /\ UNCHANGED df_complementar_tratado
          ELSE ppc' = "reconcile_packed" /\ df_complementar_tratado' = r.df
    /\ UNCHANGED <<xlsx_principal, xlsx_complementar, path_parquet_df_principal,
                   path_parquet_df_complementar, df_principal, df_complementar,
                   cols_exploded, df_completo, df_final, written,
                   coerceVars, aggVars, viewVars>>

ReconcileMerge ==
    /\ ppc = "reconcile_packed"
    /\ LET r == merge_dataframes(df_principal, df_complementar_tratado, ColKey, "left")
       IN IF r.raised
          THEN ppc' = "reconcile_raised" /\ UNCHANGED df_completo
          ELSE ppc' = "reconcile_merged" /\ df_completo' = r.df
    /\ UNCHANGED <<xlsx_principal, xlsx_complementar, path_parquet_df_principal,
                   path_parquet_df_complementar, df_principal, df_complementar,
                   cols_exploded, df_complementar_tratado, df_final, written,
                   coerceVars, aggVars, viewVars>>

IdleAgg ==
    /\ agg_in = EmptyTable /\ col_agg = "" /\ df_agg = EmptyTable
    /\ note = "" /\ agg_data = <<>> /\ apc = "idle"

\* df_agg = _df.copy() and the special logic for list columns.
ExpandLists ==
    /\ apc = "start"
    /\ IF col_agg \in LIST_COLS_TO_EXPLODE
       THEN LET series == Column(agg_in, col_agg)
                stringified == is_stringified_list(series)
                parsed == IF stringified THEN parse_column(series)
                          ELSE [raised |-> FALSE, column |-> series]
                exploded == is_exploded_list(parsed.column)
                T1 == SetColumn(agg_in, col_agg, parsed.column)
            IN IF parsed.raised
               THEN apc' = "raised" /\ UNCHANGED <<df_agg, note>>
               ELSE /\ df_agg' = IF exploded THEN explode(T1, col_agg) ELSE T1
                    /\ note' = IF stringified /\ exploded THEN "parsed_and_expanded"
                               ELSE IF stringified THEN "parsed"
                               ELSE IF exploded THEN "expanded"
                               ELSE ""
                    /\ apc' = "expanded"
       ELSE df_agg' = agg_in /\ note' = "" /\ apc' = "expanded"
    /\ UNCHANGED <<agg_in, col_agg, agg_data, coerceVars, pipeVars, viewVars>>

\* The normalisation of nulls and placeholders, the grouping and the
\* percentage; grouping a column that still holds list cells raises TypeError
\* (unhashable).
Aggregate ==
    /\ apc = "expanded"
    /\ LET T == SetColumn(df_agg, col_agg, [i \in 1..NRows(df_agg) |-> normalize_category(df_agg.rows[i][col_agg])])
       IN IF \E i \in 1..NRows(T) : unhashable(T.rows[i][col_agg])
          THEN apc' = "raised" /\ UNCHANGED <<df_agg, agg_data>>
          ELSE /\ df_agg' = T
               /\ agg_data' = with_percentual(group_nunique(T, col_agg))
               /\ apc' = "done"
    /\ UNCHANGED <<agg_in, col_agg, note, coerceVars, pipeVars, viewVars>>

(***************************************************************************)
(* display_timeseries_tab (src/gui_components.py): the time bucketer.      *)
(***************************************************************************)
NoSegment == "Nenhum (Total Geral)"
ColData == "Data Fato"
Granularities == {"Ano", "Trimestre", "Mes", "Semana", "Dia"}

\* granularity_map: the resample code of a granularity.
granularity_map(g) ==
    CASE g = "Ano" -> "Y"
      [] g = "Trimestre" -> "Q"
      [] g = "Mes" -> "M"
      [] g = "Semana" -> "W"
      [] g = "Dia" -> "D"

\* The calendar of the dates of the model (all in 2024, a leap year whose
\* 1 January is a Monday): a date is placed by its day of the year.
DateParts(x) ==
    CASE x = "2024-01-05" -> [m |-> 1, d |-> 5]
      [] x = "2024-01-20" -> [m |-> 1, d |-> 20]
      [] x = "2024-02-01" -> [m |-> 2, d |-> 1]
MonthDays == <<31, 29, 31, 30, 31, 30, 31, 31, 30, 31, 30, 31>>
RECURSIVE DaysBefore(_)
DaysBefore(m) == IF m = 1 THEN 0 ELSE MonthDays[m - 1] + DaysBefore(m - 1)
DayOfYear(x) == DaysBefore(DateParts(x).m) + DateParts(x).d
MonthOfDay(o) == CHOOSE m \in 1..12 : DaysBefore(m) < o /\ o <= DaysBefore(m) + MonthDays[m]
DaysOfYear == 1..(DaysBefore(12) + MonthDays[12])

\* pd.Grouper(freq=code): the label of the bin of day o is the day the
\* period ends (year end, quarter end, month end, the Sunday of the week,
\* the day itself).
period_end(code, o) ==
    CASE code = "D" -> o
      [] code = "W" -> 7 * ((o + 6) \div 7)
      [] code = "M" -> DaysBefore(MonthOfDay(o)) + MonthDays[MonthOfDay(o)]
      [] code = "Q" -> LET q == 3 * ((MonthOfDay(o) + 2) \div 3)
                       IN DaysBefore(q) + MonthDays[q]
      [] code = "Y" -> DaysBefore(12) + MonthDays[12]

\* cols_to_keep = [date_col, KEY_COLUMN_PRINCIPAL] (+ [segment_col])
cols_to_keep(dc, sc) ==
    IF sc # NoSegment THEN <<dc, KEY_COLUMN_PRINCIPAL, sc>>
    ELSE <<dc, KEY_COLUMN_PRINCIPAL>>

\* Variant: the missing values of the subset are filled with the no-value
\* label of the aggregations instead of the rows being dropped.
dropna_subset_filled(T, subset) ==
    [T EXCEPT !.rows =
        [i \in 1..NRows(T) |->
            [c \in DOMAIN T.rows[i] |->
                IF c \in Range(subset) /\ isna(T.rows[i][c]) /\ c # ColData
                THEN Str(SemRegistro) ELSE T.rows[i][c]]]]

\* df_time.dropna(subset=cols_to_keep): the rows with no null in the subset.
dropna_subset(T, subset) ==
    [T EXCEPT !.rows =
        SelectSeq(T.rows, LAMBDA r : \A c \in Range(subset) : ~isna(r[c]))]

\* The ascending sequence of a finite set of integers.
RECURSIVE SortedSeq(_)
SortedSeq(S) ==
    IF S = {} THEN <<>>
    ELSE LET x == CHOOSE y \in S : \A z \in S : y <= z
         IN <<x>> \o SortedSeq(S \ {x})

\* The values of a segment column in the order groupby sorts them.
SegmentOrder == <<Str("Em Andamento"), Str("Relatado"), Str("Sem Registro")>>

\* The bin label of a row of df_time; rows whose date is NaT are in no bin.
bin_of(T, dc, code, i) == period_end(code, DayOfYear(T.rows[i][dc].s))
dated_rows(T, dc) == {i \in 1..NRows(T) : ~isna(T.rows[i][dc])}

\* Variant: the metric is the number of rows of the group.
Contagem_de_Casos_rows(keys) == Len(keys)

\* Contagem_de_Casos=(KEY_COLUMN_PRINCIPAL, 'nunique')
Contagem_de_Casos(keys) == nunique(keys)

\* Variant: only the bins that hold a row are kept.
bucket_total_observed(T, dc, code) ==
    LET bins == SortedSeq({bin_of(T, dc, code, i) : i \in dated_rows(T, dc)})
        rowsOf(b) == SelectSeq([i \in 1..NRows(T) |-> i],
                               LAMBDA i : i \in dated_rows(T, dc) /\ bin_of(T, dc, code, i) = b)
    IN [j \in 1..Len(bins) |->
          [Periodo |-> bins[j], Segmento |-> Str(NoSegment),
           Contagem |-> Contagem_de_Casos(
                            group_values(T, KEY_COLUMN_PRINCIPAL, rowsOf(bins[j])))]]

\* groupby(pd.Grouper(key=date_col, freq=code)).agg(nunique): one row per bin
\* from the first to the last bin that holds a row, empty bins included.
bucket_total(T, dc, code) ==
    LET used == {bin_of(T, dc, code, i) : i \in dated_rows(T, dc)}
        days == {DayOfYear(T.rows[i][dc].s) : i \in dated_rows(T, dc)}
        span == {o \in DaysOfYear : \E lo, hi \in days : lo <= o /\ o <= hi}
        bins == SortedSeq({period_end(code, o) : o \in span})
        rowsOf(b) == SelectSeq([i \in 1..NRows(T) |-> i],
                               LAMBDA i : i \in dated_rows(T, dc) /\ bin_of(T, dc, code, i) = b)
    IN [j \in 1..Len(bins) |->
          [Periodo |-> bins[j], Segmento |-> Str(NoSegment),
           Contagem |-> Contagem_de_Casos(
                            group_values(T, KEY_COLUMN_PRINCIPAL, rowsOf(bins[j])))]]

\* The rows of one bin of the segmented grouping, in segment order.
bucket_segments(T, dc, code, sc, b) ==
    LET rowsOf(s) == SelectSeq([i \in 1..NRows(T) |-> i],
                        LAMBDA i : /\ i \in dated_rows(T, dc)
                                   /\ bin_of(T, dc, code, i) = b
                                   /\ T.rows[i][sc] = s)
        segs == SelectSeq(SegmentOrder, LAMBDA s : Len(rowsOf(s)) > 0)
    IN [j \in 1..Len(segs) |->
          [Periodo |-> b, Segmento |-> segs[j],
           Contagem |-> Contagem_de_Casos(
                            group_values(T, KEY_COLUMN_PRINCIPAL, rowsOf(segs[j])))]]

RECURSIVE bucket_from(_, _, _, _, _, _)
bucket_from(T, dc, code, sc, bins, j) ==
    IF j > Len(bins) THEN <<>>
    ELSE bucket_segments(T, dc, code, sc, bins[j])
         \o bucket_from(T, dc, code, sc, bins, j + 1)

\* groupby([pd.Grouper(key=date_col, freq=code), segment_col]).agg(nunique):
\* one row per (bin, segment) pair that holds a row; a null segment forms no
\* group.
bucket_segmented(T, dc, code, sc) ==
    bucket_from(T, dc, code, sc,
                SortedSeq({bin_of(T, dc, code, i) : i \in dated_rows(T, dc)}), 1)

\* Inputs: a table with a date column, the key column and a segment column.
DateCells == {Null, Dt("2024-01-05"), Dt("2024-02-01")}
SegmentCells == {Null, Str("Em Andamento"), Str("Relatado")}
TimeRow(d, k, s) ==
    [c \in {ColData, KEY_COLUMN_PRINCIPAL, ColSituacao} |->
       IF c = ColData THEN d ELSE IF c = KEY_COLUMN_PRINCIPAL THEN k ELSE s]
TimeColumns == <<ColData, KEY_COLUMN_PRINCIPAL, ColSituacao>>
\* Scenario: three dated cases, two in January and one in February.
TimeScenario ==
    [cols |-> TimeColumns,
     rows |-> <<TimeRow(Dt("2024-01-05"), Str("K1"), Str("Em Andamento")),
                TimeRow(Dt("2024-01-20"), Str("K2"), Str("Em Andamento")),
                TimeRow(Dt("2024-02-01"), Str("K3"), Str("Relatado"))>>]
TimeTables ==
    TablesOf(TimeColumns,
             {TimeRow(d, k, s) : d \in DateCells, k \in CasoCells, s \in SegmentCells},
             MaxTimeRows)
    \cup {TimeScenario}

IdleTime ==
    /\ time_in = EmptyTable /\ date_col = "" /\ granularity = ""
    /\ segment_col = "" /\ df_time = EmptyTable /\ time_series_data = <<>>
    /\ tpc = "idle"

\* df_time = df[unique_cols].copy(); dropna(subset=cols_to_keep); the early
\* return when nothing is left.
PrepareTime ==
    /\ tpc = "start"
    /\ LET keep == cols_to_keep(date_col, segment_col)
           T == dropna_subset(filter_columns(time_in, keep), keep)
       IN /\ df_time' = T
          /\ tpc' = IF NRows(T) = 0 THEN "empty" ELSE "prepared"
    /\ UNCHANGED <<time_in, date_col, granularity, segment_col, time_series_data,
                   coerceVars, pipeVars, aggVars, profileVars, frameVars, appVars>>

\* The grouping by period (and segment) and the distinct-key count.
BucketTime ==
    /\ tpc = "prepared"
    /\ time_series_data' =
          IF segment_col = NoSegment
          THEN bucket_total(df_time, date_col, granularity_map(granularity))
          ELSE bucket_segmented(df_time, date_col, granularity_map(granularity),
                                segment_col)
    /\ tpc' = "done"
    /\ UNCHANGED <<time_in, date_col, granularity, segment_col, df_time,
                   coerceVars, pipeVars, aggVars, profileVars, frameVars, appVars>>

(***************************************************************************)
(* detect_column_types (data_processing.py) and the candidate columns of   *)
(* display_crosstab_tab (src/gui_components.py).                           *)
(***************************************************************************)
\* Series.nunique() hashes the cells: on a column holding a list cell it
\* raises TypeError (unhashable type).
nunique_raises(column) == \E i \in DOMAIN column : column[i].t = "list"

\* unique_count = -1 when nunique() raises TypeError.
NotApplicable == -1

\* try: unique_count = df[col].nunique()  except TypeError: unique_count = -1
unique_count(column) ==
    IF nunique_raises(column) THEN [raised |-> FALSE, value |-> NotApplicable]
    ELSE [raised |-> FALSE, value |-> nunique(column)]

\* a / b * 100 on numpy scalars, kept as the fraction (a * 100) / b: with
\* b = 0 and a = 0 numpy yields nan (and a RuntimeWarning), it does not raise.
Ratio100(a, b) == [num |-> a * 100, den |-> b]
IsNaN(r) == r.den = 0
IsZero(r) == r.den # 0 /\ r.num = 0
Zero == [num |-> 0, den |-> 1]

\* "null_percent": (df[col].isna().sum() / len(df)) * 100
null_percent(column, n) == Ratio100(null_count(column), n)

dropna(column) == SelectSeq(column, LAMBDA c : ~isna(c))
notna_count(column) == Len(dropna(column))

\* The profile of one column; rn / rd tell whether pd.to_numeric /
\* pd.to_datetime raise on it (both are inside a bare try / except: pass).
column_profile(T, c, rn, rd) ==
    LET column == Column(T, c)
        uc == unique_count(column)
        non_null_values == dropna(column)
        n == Len(non_null_values)
        numeric_success ==
            notna_count([i \in 1..n |-> to_numeric(non_null_values[i])])
        numeric_tested == n > 0 /\ ~rn
        numeric_rate == IF numeric_tested THEN Ratio100(numeric_success, n) ELSE Zero
        datetime_success ==
            notna_count([i \in 1..n |-> to_datetime(non_null_values[i])])
        datetime_tested == n > 0 /\ numeric_rate.num < 50 * numeric_rate.den /\ ~rd
        datetime_rate == IF datetime_tested THEN Ratio100(datetime_success, n) ELSE Zero
    IN [raised |-> uc.raised,
        null_count |-> null_count(column),
        null_percent |-> null_percent(column, NRows(T)),
        unique_count |-> uc.value,
        sample_values |-> [i \in 1..(IF n < 5 THEN n ELSE 5) |-> PyStr(non_null_values[i])],
        can_be_numeric |-> numeric_rate.num > 70 * numeric_rate.den,
        can_be_datetime |-> datetime_rate.num > 70 * datetime_rate.den,
        numeric_success_rate |-> numeric_rate,
        datetime_success_rate |-> datetime_rate]

\* detect_column_types: [raised, info], info the profile of every column.
detect_column_types(T, rn, rd) ==
    LET info == [c \in Range(T.cols) |-> column_profile(T, c, rn[c], rd[c])]
    IN [raised |-> \E c \in Range(T.cols) : info[c].raised, info |-> info]

\* low_cardinality_cols = [col for col in categorical_cols
\*                         if df[col].nunique() <= 50]   (no try / except)
crosstab_candidates(T) ==
    IF \E c \in Range(T.cols) : nunique_raises(Column(T, c))
    THEN [raised |-> TRUE, cols |-> <<>>]
    ELSE [raised |-> FALSE,
          cols |-> SelectSeq(T.cols, LAMBDA c : nunique(Column(T, c)) <= 50)]

\* Inputs: a table with the key column and one object column that may hold
\* raw lists.
ProfileCells == {Null, Str("roubo"), Str("10"), Lst(<<Str("roubo"), Str("furto")>>)}
ProfileColumns == <<KEY_COLUMN_PRINCIPAL, "Tipo Penal">>
ProfileRow(k, v) ==
    [c \in Range(ProfileColumns) |-> IF c = KEY_COLUMN_PRINCIPAL THEN k ELSE v]
ProfileTables ==
    TablesOf(ProfileColumns,
             {ProfileRow(k, v) : k \in CasoCells, v \in ProfileCells}, MaxProfileRows)

NoProfile == [raised |-> FALSE, info |-> <<>>]
NoCandidates == [state |-> "none", cols |-> <<>>]

IdleProfile ==
    /\ profile_in = EmptyTable /\ column_info = NoProfile
    /\ low_cardinality_cols = NoCandidates /\ fpc = "idle"

\* One call of detect_column_types.
DetectColumnTypes ==
    /\ fpc = "start"
    /\ \E rn, rd \in [Range(profile_in.cols) -> BOOLEAN] :
         /\ \A c \in Range(profile_in.cols) :
               /\ rn[c] \in LibraryOutcomes("numeric", Column(profile_in, c))
               /\ rd[c] \in LibraryOutcomes("datetime", Column(profile_in, c))
         /\ LET r == detect_column_types(profile_in, rn, rd)
            IN IF r.raised
               THEN fpc' = "raised" /\ UNCHANGED column_info
               ELSE fpc' = "profiled" /\ column_info' = r
    /\ UNCHANGED <<profile_in, low_cardinality_cols,
                   coerceVars, pipeVars, aggVars, timeVars, frameVars, appVars>>

\* The selection of the candidate columns at the top of display_crosstab_tab.
CrosstabCandidates ==
    /\ fpc \in {"start", "profiled"}
    /\ low_cardinality_cols.state = "none"
    /\ LET r == crosstab_candidates(profile_in)
       IN low_cardinality_cols' =
             [state |-> IF r.raised THEN "raised" ELSE "listed", cols |-> r.cols]
    /\ UNCHANGED <<profile_in, column_info, fpc,
                   coerceVars, pipeVars, aggVars, timeVars, frameVars, appVars>>

(***************************************************************************)
(* create_sidebar (src/gui_components.py): the filter of the sidebar.      *)
(***************************************************************************)
\* options = sorted(df[col].dropna().unique()): unique() hashes the cells and
\* raises TypeError on a column holding a list cell.
sidebar_options(T, c) ==
    IF nunique_raises(Column(T, c)) THEN [raised |-> TRUE, options |-> {}]
    ELSE [raised |-> FALSE, options |-> Range(dropna(Column(T, c)))]

\* Variant: a row passes when some column with a selection accepts it.
create_sidebar_any(T, selected) ==
    IF \E c \in Range(T.cols) : sidebar_options(T, c).raised
    THEN [raised |-> TRUE, df |-> EmptyTable]
    ELSE [raised |-> FALSE,
          df |-> [T EXCEPT !.rows =
                    SelectSeq(T.rows,
                              LAMBDA r : \/ \A c \in Range(T.cols) : selected[c] = {}
                                         \/ \E c \in Range(T.cols) : r[c] \in selected[c])]]

\* create_sidebar: df_filtered[df_filtered[col].isin(selected)] for every
\* column with a non-empty selection: [raised, df].
create_sidebar(T, selected) ==
    IF \E c \in Range(T.cols) : sidebar_options(T, c).raised
    THEN [raised |-> TRUE, df |-> EmptyTable]
    ELSE [raised |-> FALSE,
          df |-> [T EXCEPT !.rows =
                    SelectSeq(T.rows,
                              LAMBDA r : \A c \in Range(T.cols) :
                                            selected[c] = {} \/ r[c] \in selected[c])]]

(***************************************************************************)
(* The table a caller hands to the core operations.  Tables are objects:   *)
(* heap maps an object to its contents, "caller" is the caller's table,    *)
(* "copy" the object df.copy() creates and "result" the object a call      *)
(* returns.  A column assignment writes into the object it is applied to.  *)
(***************************************************************************)
Objects == {"caller", "copy", "result"}

\* Variant: the function works on the table it received.
DataFrame_alias(ref) == ref

\* df.copy(): a new object.
DataFrame_copy(ref) == "copy"

\* The objects of a new call: the caller's table only.
fresh(h) == [o \in Objects |-> IF o = "caller" THEN h["caller"] ELSE EmptyTable]

\* df[col] = column: a write into the object ref.
setitem(h, ref, c, column) == [h EXCEPT ![ref] = SetColumn(h[ref], c, column)]

\* apply_column_types on the object ref with the mapping M (targets whose
\* conversion is total): df_typed = df.copy(), then one column assignment
\* per mapped column.
RECURSIVE assign_types(_, _, _, _)
assign_types(h, w, M, i) ==
    IF i > Len(M) THEN h
    ELSE IF ~HasCol(h[w], M[i][1]) THEN assign_types(h, w, M, i + 1)
    ELSE LET r == convert_column(h[w], M[i][1], M[i][2], FALSE)
         IN assign_types(setitem(h, w, M[i][1], Column(r.df, M[i][1])), w, M, i + 1)

call_apply_column_types(h, ref, M) ==
    LET w == DataFrame_copy(ref)
        h0 == [h EXCEPT ![w] = h[ref]]
    IN assign_types(h0, w, M, 1)

\* prepare_agg_data on the object ref: df_agg = _df.copy(); the parsed
\* column is assigned to df_agg (line 215); explode rebinds df_agg to a new
\* object; the normalised column is assigned to df_agg (line 232).
call_prepare_agg_data(h, ref, c) ==
    LET w == DataFrame_copy(ref)
        h0 == [h EXCEPT ![w] = h[ref]]
        series == Column(h0[w], c)
        listcol == c \in LIST_COLS_TO_EXPLODE
        stringified == listcol /\ is_stringified_list(series)
        parsed == IF stringified THEN parse_column(series)
                  ELSE [raised |-> FALSE, column |-> series]
        h1 == IF stringified /\ ~parsed.raised THEN setitem(h0, w, c, parsed.column)
              ELSE h0
        exploded == listcol /\ ~parsed.raised /\ is_exploded_list(parsed.column)
        bound == IF exploded THEN "result" ELSE w
        h2 == IF exploded THEN [h1 EXCEPT !["result"] = explode(h1[w], c)] ELSE h1
    IN IF parsed.raised THEN h1
       ELSE setitem(h2, bound, c,
                    [i \in 1..NRows(h2[bound]) |-> normalize_category(h2[bound].rows[i][c])])

\* create_sidebar on the object ref: df_filtered = df.copy(), then boolean
\* indexing, which returns new objects.
call_create_sidebar(h, ref, selected) ==
    LET w == DataFrame_copy(ref)
        h0 == [h EXCEPT ![w] = h[ref]]
        r == create_sidebar(h0[w], selected)
    IN IF r.raised THEN h0 ELSE [h0 EXCEPT !["result"] = r.df]

\* aggregate_column_to_list on the object ref: groupby / agg return a new
\* object.
call_aggregate_column_to_list(h, ref, key, agg) ==
    LET r == aggregate_column_to_list(h[ref], key, agg)
    IN IF r.raised THEN h ELSE [h EXCEPT !["result"] = r.df]

\* The preparation of the time bucketer on the object ref:
\* df_time = df[unique_cols].copy(); df_time = df_time.dropna(subset=...).
call_prepare_time(h, ref, dc, sc) ==
    [h EXCEPT !["result"] =
        dropna_subset(filter_columns(h[ref], cols_to_keep(dc, sc)), cols_to_keep(dc, sc))]

\* Inputs: the caller's table, and the parameters of the calls.
FramePenalCells ==
    {Null, Str("-"), Str("roubo"), Str("['roubo', 'furto']"),
     Lst(<<Str("roubo"), Str("furto")>>)}
FrameDateCells == {Null, Dt("2024-01-05")}
FrameColumns == <<KEY_COLUMN_PRINCIPAL, "Tipo Penal", ColData>>
FrameRow(k, v, d) ==
    [c \in Range(FrameColumns) |->
       IF c = KEY_COLUMN_PRINCIPAL THEN k ELSE IF c = ColData THEN d ELSE v]
FrameTables ==
    TablesOf(FrameColumns,
             {FrameRow(k, v, d) : k \in KeyCells, v \in FramePenalCells,
                                  d \in FrameDateCells},
             MaxFrameRows)
FrameMappings ==
    {<<<<"Tipo Penal", "string">>>>,
     <<<<"Tipo Penal", "boolean">>, <<ColData, "string">>>>}
FrameSelections ==
    {[c \in Range(FrameColumns) |-> IF c = "Tipo Penal" THEN s ELSE {}] :
        s \in SUBSET {Str("roubo"), Str("-")}}

IdleFrame ==
    /\ heap = [o \in Objects |-> EmptyTable] /\ df_before = EmptyTable
    /\ last_call = "idle"

CallApplyColumnTypes ==
    /\ last_call # "idle"
    /\ \E M \in FrameMappings : heap' = call_apply_column_types(fresh(heap), "caller", M)
    /\ last_call' = "apply_column_types"
    /\ UNCHANGED <<df_before, coerceVars, pipeVars, aggVars, timeVars, profileVars, appVars>>

CallPrepareAggData ==
    /\ last_call # "idle"
    /\ heap' = call_prepare_agg_data(fresh(heap), "caller", "Tipo Penal")
    /\ last_call' = "prepare_agg_data"
    /\ UNCHANGED <<df_before, coerceVars, pipeVars, aggVars, timeVars, profileVars, appVars>>

CallCreateSidebar ==
    /\ last_call # "idle"
    /\ \E selected \in FrameSelections :
          heap' = call_create_sidebar(fresh(heap), "caller", selected)
    /\ last_call' = "create_sidebar"
    /\ UNCHANGED <<df_before, coerceVars, pipeVars, aggVars, timeVars, profileVars, appVars>>

CallAggregateColumnToList ==
    /\ last_call # "idle"
    /\ heap' = call_aggregate_column_to_list(fresh(heap), "caller", KEY_COLUMN_PRINCIPAL,
                                             "Tipo Penal")
    /\ last_call' = "aggregate_column_to_list"
    /\ UNCHANGED <<df_before, coerceVars, pipeVars, aggVars, timeVars, profileVars, appVars>>

CallPrepareTime ==
    /\ last_call # "idle"
    /\ \E sc \in {NoSegment, "Tipo Penal"} :
          heap' = call_prepare_time(fresh(heap), "caller", ColData, sc)
    /\ last_call' = "display_timeseries_tab"
    /\ UNCHANGED <<df_before, coerceVars, pipeVars, aggVars, timeVars, profileVars, appVars>>

(***************************************************************************)
(* The session of the dashboard: app.py, src/state_manager.py and the      *)
(* widgets of create_sidebar and display_general_table_tab.  Every user    *)
(* interaction runs the callback of the widget, if it has one, and then    *)
(* the script (main) from the top.                                         *)
(***************************************************************************)
\* JSON_FILTROS_DEFAULT of src/config.py.
DefaultFilterColumns == {"Situacao", "Unidade UF", "Lotacao Sigla"}
JSON_FILTROS_DEFAULT(c) ==
    CASE c = "Situacao" -> "Em Andamento"
      [] c = "Unidade UF" -> "SP"
      [] c = "Lotacao Sigla" -> "SR/PF/SP"

\* key = f"filter_{col}", and k.startswith("filter_") on the keys of the model.
filter_key(c) == "filter_" \o c
filter_keys(s) ==
    {k \in DOMAIN s : \E c \in DefaultFilterColumns \cup {KEY_COLUMN_PRINCIPAL} :
                         k = filter_key(c)}

\* st.session_state.excel_file: None, or the bytes of a workbook.
NoExcel == [none |-> TRUE, sheet_name |-> "", header |-> <<>>, body |-> <<>>]

\* to_excel: df.to_excel(writer, index=False, sheet_name='Dados').
to_excel(T) ==
    [none |-> FALSE, sheet_name |-> "Dados", header |-> T.cols,
     body |-> [i \in 1..NRows(T) |-> [j \in 1..NCols(T) |-> T.rows[i][T.cols[j]]]]]

\* s with key k set to v, and s without key k.
with_key(s, k, v) == (k :> v) @@ s
without_key(s, k) == [x \in DOMAIN s \ {k} |-> s[x]]
setdefault(s, k, v) == IF k \in DOMAIN s THEN s ELSE with_key(s, k, v)

\* Variant: the default filter values are written on every run.
initialize_state_always(s) ==
    LET defaults == [k \in {filter_key(c) : c \in DefaultFilterColumns} |->
                       {Str(JSON_FILTROS_DEFAULT(
                              CHOOSE c \in DefaultFilterColumns : filter_key(c) = k))}]
    IN defaults @@ setdefault(s, "expanders_state", TRUE)

\* initialize_state: the flag of the expanders and the default filter values
\* are written under the keys that do not exist yet.
initialize_state(s) ==
    LET defaults == [k \in {filter_key(c) : c \in DefaultFilterColumns} |->
                       {Str(JSON_FILTROS_DEFAULT(
                              CHOOSE c \in DefaultFilterColumns : filter_key(c) = k))}]
    IN setdefault(s, "expanders_state", TRUE) @@ defaults

\* invalidate_excel_file: st.session_state.excel_file = None
invalidate_excel_file(s) == with_key(s, "excel_file", NoExcel)

\* clear_filters: every key with the prefix filter_ is set to [], the key of
\* the column selection is deleted, the workbook is invalidated.
clear_filters(s) ==
    LET emptied == [k \in DOMAIN s |-> IF k \in filter_keys(s) THEN {} ELSE s[k]]
    IN invalidate_excel_file(without_key(emptied, "multiselect_columns"))

\* The cells of the model in the order sort_values sorts them (code points).
SortOrderOfCells ==
    <<Str("Em Andamento"), Str("K1"), Str("K2"), Str("Relatado")>>
sort_rank(c, ascending) ==
    IF isna(c) THEN Len(SortOrderOfCells) + 1
    ELSE LET p == CHOOSE i \in DOMAIN SortOrderOfCells : SortOrderOfCells[i] = c
         IN IF ascending THEN p ELSE 0 - p

\* The indexes S of the rows of T by rank of column by; nulls come last in
\* both directions (na_position='last'), rows of equal rank keep their order
\* (the sort of a short column is an insertion sort).
RECURSIVE sorted_indexes(_, _, _, _)
sorted_indexes(T, by, ascending, S) ==
    IF S = {} THEN <<>>
    ELSE LET first == CHOOSE i \in S : \A j \in S :
                         \/ sort_rank(T.rows[i][by], ascending) < sort_rank(T.rows[j][by], ascending)
                         \/ /\ sort_rank(T.rows[i][by], ascending) = sort_rank(T.rows[j][by], ascending)
                            /\ i <= j
         IN <<first>> \o sorted_indexes(T, by, ascending, S \ {first})

\* df.sort_values(by=sort_col, ascending=is_ascending)
sort_values(T, by, ascending) ==
    LET order == sorted_indexes(T, by, ascending, 1..NRows(T))
    IN [T EXCEPT !.rows = [i \in 1..NRows(T) |-> T.rows[order[i]]]]

\* The filter multiselects of create_sidebar register their keys: a key that
\* does not exist starts with the empty selection.
register_filters(s, T) ==
    [k \in DOMAIN s \cup {filter_key(c) : c \in Range(T.cols)} |->
        IF k \in DOMAIN s THEN s[k] ELSE {}]

\* The selection of each column of the table, read from the session.
selected_of(s, T) == [c \in Range(T.cols) |-> s[filter_key(c)]]

\* One run of main() on session s with the table T and the values of the
\* sort widgets: [session, ran, df_filtered, shown].  An empty table ends the
\* run before the sidebar.
script_run(s, T, by, order) ==
    LET s1 == initialize_state(s)
        s2 == register_filters(s1, T)
        filtered == create_sidebar(T, selected_of(s2, T)).df
        s3 == setdefault(s2, "multiselect_columns", filtered.cols)
        df_sorted == sort_values(filtered, by, order = "Crescente")
        s4 == setdefault(s3, "excel_file", NoExcel)
    IN IF NRows(T) = 0
       THEN [session |-> s1, ran |-> FALSE, filtered |-> EmptyTable, shown |-> EmptyTable]
       ELSE [session |-> s4, ran |-> TRUE, filtered |-> filtered,
             shown |-> filter_columns(df_sorted, s4["multiselect_columns"])]

\* Inputs: the table of the session and the selections the user can make.
SessionColumns == <<KEY_COLUMN_PRINCIPAL, "Situacao">>
SessionKeyCells == {Str("K1"), Str("K2")}
SessionSituacaoCells == {Null, Str("Em Andamento"), Str("Relatado")}
SessionRow(k, v) ==
    [c \in Range(SessionColumns) |-> IF c = KEY_COLUMN_PRINCIPAL THEN k ELSE v]
\* The default selection of a filter must be one of its options: the tables
\* have a row with the default value of 'Situacao', or no row at all.
SessionTables ==
    {T \in TablesOf(SessionColumns,
                    {SessionRow(k, v) : k \in SessionKeyCells, v \in SessionSituacaoCells},
                    MaxSessionRows) :
        \/ NRows(T) = 0
        \/ \E i \in 1..NRows(T) : T.rows[i]["Situacao"] = Str("Em Andamento")}
ColumnSelections == {SessionColumns, <<"Situacao">>}
SortOrders == {"Crescente", "Decrescente"}

IdleSession ==
    /\ session_state = <<>> /\ sort_col = "" /\ sort_order = ""
    /\ df_tratado = EmptyTable /\ df_filtered = EmptyTable /\ df_shown = EmptyTable
    /\ callback = "idle" /\ rendered = FALSE /\ cleared = FALSE

\* main(): one run of the script.
RunScript ==
    /\ callback \notin {"idle", "none"}
    /\ LET r == script_run(session_state, df_tratado, sort_col, sort_order)
       IN /\ session_state' = r.session
          /\ rendered' = r.ran
          /\ df_filtered' = r.filtered
          /\ df_shown' = r.shown
    /\ callback' = "none"
    /\ UNCHANGED <<df_tratado, sort_col, sort_order, cleared,
                   nonSessionVars>>

\* The user changes the selection of the filter of one column
\* (on_change=invalidate_excel_file).
ChangeFilter ==
    /\ callback = "none" /\ rendered
    /\ \E c \in Range(df_tratado.cols) :
         \E sel \in SUBSET sidebar_options(df_tratado, c).options :
            /\ Cardinality(sel) <= 1
            /\ sel # session_state[filter_key(c)]
            /\ session_state' =
                  invalidate_excel_file(with_key(session_state, filter_key(c), sel))
            /\ cleared' = (cleared /\ sel = {})
    /\ callback' = "invalidate_excel_file"
    /\ UNCHANGED <<df_tratado, df_filtered, df_shown, sort_col, sort_order, rendered,
                   nonSessionVars>>

\* The user changes the columns to show (on_change=invalidate_excel_file).
ChangeColumns ==
    /\ callback = "none" /\ rendered
    /\ \E cs \in ColumnSelections :
          /\ cs # session_state["multiselect_columns"]
          /\ session_state' =
                invalidate_excel_file(with_key(session_state, "multiselect_columns", cs))
    /\ callback' = "invalidate_excel_file"
    /\ UNCHANGED <<df_tratado, df_filtered, df_shown, sort_col, sort_order, rendered, cleared,
                   nonSessionVars>>

\* The user picks another sort column: the selectbox has no callback.
ChangeSortColumn ==
    /\ callback = "none" /\ rendered
    /\ \E c \in Range(df_tratado.cols) : c # sort_col /\ sort_col' = c
    /\ callback' = "rerun"
    /\ UNCHANGED <<session_state, df_tratado, df_filtered, df_shown, sort_order,
                   rendered, cleared,
                   nonSessionVars>>

\* The user picks the other sort order: the radio has no callback.
ChangeSortOrder ==
    /\ callback = "none" /\ rendered
    /\ \E o \in SortOrders : o # sort_order /\ sort_order' = o
    /\ callback' = "rerun"
    /\ UNCHANGED <<session_state, df_tratado, df_filtered, df_shown, sort_col,
                   rendered, cleared,
                   nonSessionVars>>

\* 'Preparar Download': generate_excel exports the table of the last run.
PrepareDownload ==
    /\ callback = "none" /\ rendered
    /\ session_state' = with_key(session_state, "excel_file", to_excel(df_shown))
    /\ callback' = "generate_excel"
    /\ UNCHANGED <<df_tratado, df_filtered, df_shown, sort_col, sort_order, rendered, cleared,
                   nonSessionVars>>

\* 'Limpar Todos os Filtros': clear_filters.
ClearFilters ==
    /\ callback = "none" /\ rendered
    /\ session_state' = clear_filters(session_state)
    /\ cleared' = TRUE
    /\ callback' = "clear_filters"
    /\ UNCHANGED <<df_tratado, df_filtered, df_shown, sort_col, sort_order, rendered,
                   nonSessionVars>>

(***************************************************************************)
(* The type-configuration page (main.py): st.session_state with the keys   *)
(* df_original, column_info, file_loaded, types_configured, df_final.      *)
(* A value that may be None is a record [none, df] or [none, cols, info].  *)
(***************************************************************************)
NoFrame == [none |-> TRUE, df |-> EmptyTable]
Frame(T) == [none |-> FALSE, df |-> T]
NoInfo == [none |-> TRUE, cols |-> <<>>, info |-> <<>>]

\* read_dataframe: None when the path does not exist, the extension is not
\* supported or the reader raises; the table of the file otherwise.
read_dataframe(file) == IF file.readable THEN Frame(file.content) ELSE NoFrame

\* detect_column_types of main.py: df[col].nunique() is not guarded, so a
\* column with a list cell makes the function raise; the conversions tested
\* afterwards are inside try / except: pass.
main_detect_column_types(T) ==
    IF \E c \in Range(T.cols) : nunique_raises(Column(T, c))
    THEN [raised |-> TRUE, column_info |-> NoInfo]
    ELSE [raised |-> FALSE,
          column_info |-> [none |-> FALSE, cols |-> T.cols,
                           info |-> [c \in Range(T.cols) |->
                                        column_profile(T, c, FALSE, FALSE)]]]

\* apply_column_types of main.py with the outcomes raises[i] of the library
\* call for the i-th key of the mapping: the loop of data_processing.py
\* with .astype(str).astype('string') for .apply(str), the same cells.
RECURSIVE main_apply_from(_, _, _, _, _)
main_apply_from(T, M, i, log, raises) ==
    IF i > Len(M) THEN [df |-> T, log |-> log]
    ELSE IF ~HasCol(T, M[i][1]) THEN main_apply_from(T, M, i + 1, log, raises)
    ELSE LET r == convert_column(T, M[i][1], M[i][2], raises[i])
         IN main_apply_from(r.df, M, i + 1, log \o r.entries, raises)
main_apply_column_types(T, M, raises) == main_apply_from(T, M, 1, <<>>, raises)

\* The outcomes the library calls can have for mapping M on table T.
RaiseChoices(T, M) ==
    {r \in [1..Len(M) -> BOOLEAN] :
        \A i \in 1..Len(M) :
           IF HasCol(T, M[i][1])
           THEN r[i] \in LibraryOutcomes(M[i][2], Column(T, M[i][1]))
           ELSE r[i] = FALSE}

\* The tables apply_column_types can return for T and M.
ApplyOutcomes(T, M) ==
    {main_apply_column_types(T, M, r).df : r \in RaiseChoices(T, M)}

\* type_mapping[col_name] = selected_type for every key of column_info.
FormMappings(cols) ==
    {[i \in 1..Len(cols) |-> <<cols[i], t[i]>>] : t \in [1..Len(cols) -> TargetTypes]}

\* success_rate > 80 on the fraction.
Above(r, percent) == r.num > percent * r.den

\* auto_mapping: numeric / datetime when the success rate is above 80.
auto_mapping(ci) ==
    [i \in 1..Len(ci.cols) |->
        LET info == ci.info[ci.cols[i]]
        IN <<ci.cols[i],
             IF info.can_be_numeric /\ Above(info.numeric_success_rate, 80) THEN "numeric"
             ELSE IF info.can_be_datetime /\ Above(info.datetime_success_rate, 80)
                  THEN "datetime"
                  ELSE "string">>]

\* string_mapping = {col: 'string' for col in column_info.keys()}
string_mapping(ci) == [i \in 1..Len(ci.cols) |-> <<ci.cols[i], "string">>]

\* Variant: a successful load keeps the flag types_configured.
load_success_keep_configured(s, T) ==
    [s EXCEPT !.df_original = Frame(T), !.file_loaded = TRUE]

\* The assignments after a successful read: the table is stored, the file
\* is marked as loaded and the type configuration is reset.
load_success(s, T) ==
    [s EXCEPT !.df_original = Frame(T), !.file_loaded = TRUE, !.types_configured = FALSE]

\* st.session_state['df_final'] = df_final; types_configured = True
configured(s, T) == [s EXCEPT !.df_final = Frame(T), !.types_configured = TRUE]

\* Inputs: the files the user can point to.
MainColumns == {<<ColDuracao>>, <<"Tipo Penal">>}
MainCells(c) ==
    IF c = ColDuracao THEN {Str("10"), Str("abc")}
    ELSE {Str("roubo"), Lst(<<Str("roubo"), Str("furto")>>)}
MainTables ==
    UNION {TablesOf(cols, {[c \in Range(cols) |-> v] : v \in MainCells(cols[1])}, MaxMainRows) :
              cols \in MainColumns}
MainFiles ==
    {[readable |-> TRUE, content |-> T] : T \in MainTables}
       \cup {[readable |-> FALSE, content |-> EmptyTable]}
MainMappings == UNION {FormMappings(cols) : cols \in MainColumns}

IdleMain == main_state = <<>>

\* The form is shown: a file is loaded and the types are not configured.
\* With column_info None the script fails at column_info.keys().
FormShown ==
    /\ main_state.file_loaded /\ ~main_state.types_configured
    /\ ~main_state.column_info.none

\* 'Carregar Arquivo': a failed read changes nothing; after a successful
\* one detect_column_types may raise before column_info is stored.
LoadFile ==
    /\ main_state # <<>>
    /\ \E file \in MainFiles :
          LET df_original == read_dataframe(file)
              s == load_success(main_state, df_original.df)
              d == main_detect_column_types(df_original.df)
          IN main_state' =
                IF df_original.none THEN main_state
                ELSE IF d.raised THEN s
                ELSE [s EXCEPT !.column_info = d.column_info]
    /\ UNCHANGED nonMainVars

\* 'Aplicar Tipos'
ApplyTypes ==
    /\ main_state # <<>> /\ FormShown
    /\ \E M \in FormMappings(main_state.column_info.cols) :
          \E T \in ApplyOutcomes(main_state.df_original.df, M) :
             main_state' = configured(main_state, T)
    /\ UNCHANGED nonMainVars

\* 'Auto-detectar'
AutoDetect ==
    /\ main_state # <<>> /\ FormShown
    /\ \E T \in ApplyOutcomes(main_state.df_original.df, auto_mapping(main_state.column_info)) :
          main_state' = configured(main_state, T)
    /\ UNCHANGED nonMainVars

\* 'Tudo como String'
AllString ==
    /\ main_state # <<>> /\ FormShown
    /\ \E T \in ApplyOutcomes(main_state.df_original.df, string_mapping(main_state.column_info)) :
          main_state' = configured(main_state, T)
    /\ UNCHANGED nonMainVars

\* 'Reconfigurar Tipos de Dados', shown with the data tabs.
Reconfigure ==
    /\ main_state # <<>>
    /\ main_state.types_configured /\ ~main_state.df_final.none
    /\ main_state' = [main_state EXCEPT !.types_configured = FALSE]
    /\ UNCHANGED nonMainVars

IdleApp == IdleSession /\ IdleMain

IdleView == IdleTime /\ IdleProfile /\ IdleFrame /\ IdleApp

(***************************************************************************)
(* Specifications.                                                         *)
(***************************************************************************)
InitCoerce ==
    /\ df \in CoerceTables
    /\ type_mapping \in Mappings
    /\ df_typed = EmptyTable /\ conversion_log = <<>> /\ idx = 0 /\ pc = "start"
    /\ raised_count = 0
    /\ IdlePipe /\ IdleAgg /\ IdleView
NextCoerce == CopyInput \/ SkipAbsentColumn \/ ConvertColumn \/ ReturnTyped
SpecCoerce == InitCoerce /\ [][NextCoerce]_vars

InitPipeline ==
    /\ xlsx_principal \in FilesOf(PrincipalTables)
    /\ xlsx_complementar \in FilesOf(ComplementarTables)
    /\ path_parquet_df_principal = NoFile /\ path_parquet_df_complementar = NoFile
    /\ df_principal = EmptyTable /\ df_complementar = EmptyTable
    /\ cols_exploded = NoExploded
    /\ df_complementar_tratado = EmptyTable /\ df_completo = EmptyTable
    /\ df_final = EmptyTable /\ written = {} /\ ppc = "start"
    /\ IdleCoerce /\ IdleAgg /\ IdleView
NextPipeline ==
    \/ ConvertSpreadsheets \/ ReadPrincipal \/ ReadComplementar \/ Pack
    \/ Merge \/ WriteCompleto \/ Treat \/ WriteTratado
SpecPipeline == InitPipeline /\ [][NextPipeline]_vars

InitPack ==
    /\ df_complementar \in PackTables
    /\ xlsx_principal = MissingFile /\ xlsx_complementar = MissingFile
    /\ path_parquet_df_principal = NoFile /\ path_parquet_df_complementar = NoFile
    /\ df_principal = EmptyTable /\ cols_exploded = NoExploded
    /\ df_complementar_tratado = EmptyTable /\ df_completo = EmptyTable
    /\ df_final = EmptyTable /\ written = {} /\ ppc = "pack_input"
    /\ IdleCoerce /\ IdleAgg /\ IdleView
NextPack == PackTable
SpecPack == InitPack /\ [][NextPack]_vars

InitReconcile ==
    /\ df_principal \in PrincipalTables
    /\ df_complementar \in ComplementarTables
    /\ xlsx_principal = MissingFile /\ xlsx_complementar = MissingFile
    /\ path_parquet_df_principal = NoFile /\ path_parquet_df_complementar = NoFile
    /\ cols_exploded = NoExploded
    /\ df_complementar_tratado = EmptyTable /\ df_completo = EmptyTable
    /\ df_final = EmptyTable /\ written = {} /\ ppc = "reconcile_input"
    /\ IdleCoerce /\ IdleAgg /\ IdleView
NextReconcile == ReconcilePack \/ ReconcileMerge
SpecReconcile == InitReconcile /\ [][NextReconcile]_vars

InitAgg ==
    /\ col_agg \in AggColumns
    /\ agg_in \in AggTables(col_agg)
    /\ df_agg = EmptyTable /\ note = "" /\ agg_data = <<>> /\ apc = "start"
    /\ IdleCoerce /\ IdlePipe /\ IdleView
NextAgg == ExpandLists \/ Aggregate
SpecAgg == InitAgg /\ [][NextAgg]_vars

InitTime ==
    /\ time_in \in TimeTables
    /\ date_col = ColData
    /\ granularity \in Granularities
    /\ segment_col \in {NoSegment, ColSituacao}
    /\ df_time = EmptyTable /\ time_series_data = <<>> /\ tpc = "start"
    /\ IdleCoerce /\ IdlePipe /\ IdleAgg /\ IdleProfile /\ IdleFrame /\ IdleApp
NextTime == PrepareTime \/ BucketTime
SpecTime == InitTime /\ [][NextTime]_vars

\* The aggregation and the time bucketer, each on its own input.
InitViews == InitAgg \/ InitTime
NextViews == NextAgg \/ NextTime
SpecViews == InitViews /\ [][NextViews]_vars

InitProfile ==
    /\ profile_in \in ProfileTables
    /\ column_info = NoProfile /\ low_cardinality_cols = NoCandidates
    /\ fpc = "start"
    /\ IdleCoerce /\ IdlePipe /\ IdleAgg /\ IdleTime /\ IdleFrame /\ IdleApp
NextProfile == DetectColumnTypes \/ CrosstabCandidates
SpecProfile == InitProfile /\ [][NextProfile]_vars

InitFrame ==
    /\ df_before \in FrameTables
    /\ heap = [o \in Objects |-> IF o = "caller" THEN df_before ELSE EmptyTable]
    /\ last_call = "none"
    /\ IdleCoerce /\ IdlePipe /\ IdleAgg /\ IdleTime /\ IdleProfile /\ IdleApp
NextFrame ==
    \/ CallApplyColumnTypes \/ CallPrepareAggData \/ CallCreateSidebar
    \/ CallAggregateColumnToList \/ CallPrepareTime
SpecFrame == InitFrame /\ [][NextFrame]_vars

InitSession ==
    /\ df_tratado \in SessionTables
    /\ session_state = <<>>
    /\ sort_col = KEY_COLUMN_PRINCIPAL /\ sort_order = "Crescente"
    /\ df_filtered = EmptyTable /\ df_shown = EmptyTable
    /\ callback = "start" /\ rendered = FALSE /\ cleared = FALSE
    /\ IdleCoerce /\ IdlePipe /\ IdleAgg /\ IdleTime /\ IdleProfile /\ IdleFrame /\ IdleMain
NextSession ==
    \/ RunScript \/ ChangeFilter \/ ChangeColumns \/ ChangeSortColumn
    \/ ChangeSortOrder \/ PrepareDownload \/ ClearFilters
SpecSession == InitSession /\ [][NextSession]_vars

InitMain ==
    /\ main_state = [df_original |-> NoFrame, column_info |-> NoInfo, file_loaded |-> FALSE,
                     types_configured |-> FALSE, df_final |-> NoFrame]
    /\ IdleCoerce /\ IdlePipe /\ IdleAgg /\ IdleTime /\ IdleProfile /\ IdleFrame /\ IdleSession
NextMain == LoadFile \/ ApplyTypes \/ AutoDetect \/ AllString \/ Reconfigure
SpecMain == InitMain /\ [][NextMain]_vars

(***************************************************************************)
(* Properties.                                                             *)
(***************************************************************************)
FailEntries == {k \in DOMAIN conversion_log : conversion_log[k].status = "fail"}

\* C1: apply_column_types never changes the number of rows: the working table
\* has as many rows as the input after the copy, after every step of the
\* per-column loop (the failure fallback included) and at return.
C1_RowCountPreserved ==
    pc \in {"loop", "done"} => NRows(df_typed) = NRows(df)

\* A call that returned on a table of two or more rows after one column took
\* the failure fallback and another lost values.
C1_Witness ==
    /\ pc = "done"
    /\ NRows(df) >= 2
    /\ FailEntries # {}
    /\ \E k \in DOMAIN conversion_log : conversion_log[k].status = "loss"

\* The cell a conversion to target makes of the input cell c.
ConvertedCell(target, c) ==
    CASE target = "string" -> (IF c.t = "null" THEN Str("") ELSE Str(PyStr(c)))
      [] target = "numeric" -> to_numeric(c)
      [] target = "datetime" -> to_datetime(c)
      [] target = "boolean" -> to_boolean(c)
      [] OTHER -> c

\* The entries of the mapping whose column is in the input table, in order.
PresentEntries == SelectSeq(type_mapping, LAMBDA e : HasCol(df, e[1]))

\* C2: a conversion error of one column never escapes apply_column_types:
\* each raised error leaves exactly one failure entry carrying its message,
\* the failed column holds the stringified input (nulls as ""), and at return
\* every mapped column of the table has its entry, in mapping order, and its
\* converted values, the columns after a failed one included.
C2_FailureIsLocal ==
    /\ pc # "raised"
    /\ Cardinality(FailEntries) = raised_count
    /\ \A k \in FailEntries :
         /\ conversion_log[k].msg # ""
         /\ \A i \in 1..NRows(df) :
              df_typed.rows[i][conversion_log[k].col] =
                  (IF df.rows[i][conversion_log[k].col].t = "null" THEN Str("")
                   ELSE Str(PyStr(df.rows[i][conversion_log[k].col])))
    /\ pc = "done" =>
         /\ Len(conversion_log) = Len(PresentEntries)
         /\ \A k \in DOMAIN conversion_log :
              /\ conversion_log[k].col = PresentEntries[k][1]
              /\ conversion_log[k].status # "fail" =>
                   \A i \in 1..NRows(df) :
                       df_typed.rows[i][conversion_log[k].col] =
                           ConvertedCell(PresentEntries[k][2],
                                         df.rows[i][conversion_log[k].col])

\* A returned call in which a column with a null cell failed and the next
\* column of the mapping was converted, changing a value.
C2_Witness ==
    /\ pc = "done"
    /\ \E k \in FailEntries :
         /\ \E i \in 1..NRows(df) : isna(df.rows[i][conversion_log[k].col])
         /\ k + 1 \in DOMAIN conversion_log
         /\ conversion_log[k + 1].status \in {"ok", "loss"}
         /\ Column(df_typed, conversion_log[k + 1].col)
                # Column(df, conversion_log[k + 1].col)

\* The principal spreadsheet was read and its key column is absent or has a
\* number of distinct values different from the row count.
PrincipalKeyBad ==
    /\ xlsx_principal.exists
    /\ \/ ColKey \notin Range(xlsx_principal.table.cols)
       \/ Cardinality({xlsx_principal.table.rows[i][ColKey] :
                          i \in 1..NRows(xlsx_principal.table)} \ {Null})
              # NRows(xlsx_principal.table)

\* C3: when the principal table's key column is absent or not unique the
\* pipeline stops at that check: nothing is packed or merged and neither the
\* merged nor the treated file is written.
C3_PrincipalCheckStops ==
    PrincipalKeyBad =>
        /\ ppc \in {"start", "converted", "failed_assert_principal"}
        /\ df_complementar_tratado = EmptyTable
        /\ df_completo = EmptyTable
        /\ FileCompleto \notin written
        /\ FileTratado \notin written

\* The pipeline stopped at the principal check on a table with a duplicated
\* key, although the complementary table would have passed its own check.
C3_Witness ==
    /\ ppc = "failed_assert_principal"
    /\ HasCol(df_principal, ColKey)
    /\ NRows(df_principal) >= 2
    /\ xlsx_complementar.exists
    /\ confirm_cols_exploded(xlsx_complementar.table, ColKey).cols = <<ColPenal>>

\* The distinct non-null keys of a table are as many as its rows.
KeyDistinctEqualsRows(T) ==
    Cardinality({T.rows[i][ColKey] : i \in 1..NRows(T)} \ {Null}) = NRows(T)

\* C4: packing any complementary table and left-joining it to a principal
\* table whose key is unique gives a merged table whose key column has as many
\* distinct values as the table has rows (in particular for the complementary
\* tables in which only the multi-valued attribute varies within a key).
C4_MergedKeyUnique ==
    (ppc = "reconcile_merged" /\ KeyDistinctEqualsRows(df_principal))
        => KeyDistinctEqualsRows(df_completo)

\* Only the multi-valued attribute varies within a key of the table.
OnlyPenalVaries(T) ==
    \A i, j \in 1..NRows(T) :
        T.rows[i][ColKey] = T.rows[j][ColKey] => T.rows[i][ColLei] = T.rows[j][ColLei]

\* A merge of a two-row principal table with a complementary table that
\* repeats a key with two penal types and nothing else varying.
C4_Witness ==
    /\ ppc = "reconcile_merged"
    /\ KeyDistinctEqualsRows(df_principal)
    /\ NRows(df_principal) >= 2
    /\ OnlyPenalVaries(df_complementar)
    /\ \E i, j \in 1..NRows(df_complementar) :
         /\ i # j
         /\ df_complementar.rows[i][ColKey] = df_complementar.rows[j][ColKey]
         /\ df_complementar.rows[i][ColKey] # Null
         /\ df_complementar.rows[i][ColPenal] # df_complementar.rows[j][ColPenal]
         /\ \E p \in 1..NRows(df_principal) :
              df_principal.rows[p][ColKey] = df_complementar.rows[i][ColKey]

PipelineMerged == ppc \in {"merged", "completo_written", "treated", "done"}

\* The rows of the merged table whose key is k.
MergedRowsOf(k) == {m \in 1..NRows(df_completo) : df_completo.rows[m][ColKey] = k}

\* The principal key k has no row in the complementary table.
Unmatched(k) == \A j \in 1..NRows(df_complementar) : df_complementar.rows[j][ColKey] # k

\* C5: the left join of the pipeline loses no principal row: the merged table
\* has the principal's row count and more columns, and a principal key absent
\* from the complementary table appears once, with null in every
\* complementary column.
C5_LeftJoinKeepsRows ==
    PipelineMerged =>
        /\ NRows(df_completo) = NRows(df_principal)
        /\ NCols(df_completo) > NCols(df_principal)
        /\ \A p \in 1..NRows(df_principal) :
             Unmatched(df_principal.rows[p][ColKey]) =>
                /\ Cardinality(MergedRowsOf(df_principal.rows[p][ColKey])) = 1
                /\ \A m \in MergedRowsOf(df_principal.rows[p][ColKey]) :
                     /\ df_completo.rows[m][ColLei] = Null
                     /\ df_completo.rows[m][ColPenal] = Null

\* A merge in which one principal key is matched and another is not.
C5_Witness ==
    /\ PipelineMerged
    /\ \E p, q \in 1..NRows(df_principal) :
         /\ Unmatched(df_principal.rows[p][ColKey])
         /\ ~Unmatched(df_principal.rows[q][ColKey])

\* The positions of the rows of the complementary table with key k.
RowsOfKey(k) == {i \in 1..NRows(df_complementar) : df_complementar.rows[i][ColKey] = k}

\* The n-th smallest element of a set of positions.
Nth(S, n) == CHOOSE i \in S : Cardinality({j \in S : j <= i}) = n

\* The packed rows with key k.
PackedRowsOf(k) ==
    {g \in 1..NRows(df_complementar_tratado) : df_complementar_tratado.rows[g][ColKey] = k}

ComplementarKeys ==
    {df_complementar.rows[i][ColKey] : i \in 1..NRows(df_complementar)} \ {Null}

ScenarioTable ==
    [cols |-> <<ColKey, ColLei, ColPenal>>,
     rows |-> <<ComplementarRow(Str("A"), Null, Str("roubo")),
                ComplementarRow(Str("A"), Null, Str("furto")),
                ComplementarRow(Str("B"), Null, Str("estupro"))>>]

\* C6: aggregate_column_to_list gives every key of the complementary table
\* one packed row whose multi-valued cell is the list of that key's values in
\* original row order, duplicates kept; (A,roubo),(A,furto),(B,estupro) gives
\* A -> [roubo, furto] and B -> [estupro].
C6_ListInRowOrder ==
    ppc = "pack_done" =>
        /\ \A k \in ComplementarKeys :
             /\ Cardinality(PackedRowsOf(k)) = 1
             /\ \A g \in PackedRowsOf(k) :
                  LET cell == df_complementar_tratado.rows[g][ColPenal]
                  IN /\ cell.t = "list"
                     /\ Len(cell.l) = Cardinality(RowsOfKey(k))
                     /\ \A n \in 1..Len(cell.l) :
                          cell.l[n] = df_complementar.rows[Nth(RowsOfKey(k), n)][ColPenal]
        /\ df_complementar = ScenarioTable =>
             /\ NRows(df_complementar_tratado) = 2
             /\ df_complementar_tratado.rows[1][ColKey] = Str("A")
             /\ df_complementar_tratado.rows[1][ColPenal].l = <<Str("roubo"), Str("furto")>>
             /\ df_complementar_tratado.rows[2][ColKey] = Str("B")
             /\ df_complementar_tratado.rows[2][ColPenal].l = <<Str("estupro")>>

\* The scenario has been packed.
C6_Witness == ppc = "pack_done" /\ df_complementar = ScenarioTable

\* A packed table in which a key collected the same value twice.
C6_WitnessDuplicates ==
    /\ ppc = "pack_done"
    /\ \E g \in 1..NRows(df_complementar_tratado) :
         df_complementar_tratado.rows[g][ColPenal].l = <<Str("roubo"), Str("roubo")>>

\* C7 as stated: the packed row of a key holds, in every other column, the
\* value of the first row of that key, null or not.
C7_FirstRowWins ==
    ppc = "pack_done" =>
        \A k \in ComplementarKeys : \A g \in PackedRowsOf(k) :
            df_complementar_tratado.rows[g][ColLei] =
                df_complementar.rows[Nth(RowsOfKey(k), 1)][ColLei]

\* The positions of the rows with key k whose other column is not null.
NonNullRowsOfKey(k) == {i \in RowsOfKey(k) : df_complementar.rows[i][ColLei] # Null}

\* C7 amended: the packed row of a key holds, in every other column, the first
\* non-null value of that key's rows in row order, and null only when every
\* row of the key has null there.
C7_FirstNonNullWins ==
    ppc = "pack_done" =>
        \A k \in ComplementarKeys : \A g \in PackedRowsOf(k) :
            df_complementar_tratado.rows[g][ColLei] =
                (IF NonNullRowsOfKey(k) = {} THEN Null
                 ELSE df_complementar.rows[Nth(NonNullRowsOfKey(k), 1)][ColLei])

\* A packed key whose first row has null in the other column, whose later rows
\* hold two different values there.
C7_Witness ==
    /\ ppc = "pack_done"
    /\ \E k \in ComplementarKeys :
         /\ df_complementar.rows[Nth(RowsOfKey(k), 1)][ColLei] = Null
         /\ Cardinality({df_complementar.rows[i][ColLei] : i \in NonNullRowsOfKey(k)}) = 2

\* Some column other than the multi-valued attribute takes more than one
\* distinct value within a duplicated key of the complementary spreadsheet.
OtherColumnVaries ==
    /\ xlsx_complementar.exists
    /\ \E i, j \in 1..NRows(xlsx_complementar.table) :
         /\ i # j
         /\ xlsx_complementar.table.rows[i][ColKey] = xlsx_complementar.table.rows[j][ColKey]
         /\ xlsx_complementar.table.rows[i][ColKey] # Null
         /\ xlsx_complementar.table.rows[i][ColLei] # Null
         /\ xlsx_complementar.table.rows[j][ColLei] # Null
         /\ xlsx_complementar.table.rows[i][ColLei] # xlsx_complementar.table.rows[j][ColLei]

\* C8: when another column than the multi-valued attribute takes more than
\* one distinct value within a duplicated key, the explodedness check names
\* that column and the pipeline stops before packing: no packed table exists.
C8_ExplodednessStops ==
    OtherColumnVaries =>
        /\ ppc \in {"start", "converted", "failed_read_principal",
                    "failed_assert_principal", "principal_ok",
                    "failed_assert_complementar"}
        /\ ppc = "failed_assert_complementar" => ColLei \in Range(cols_exploded.cols)
        /\ df_complementar_tratado = EmptyTable

\* The pipeline stopped at the complementary check on a table in which both
\* the multi-valued attribute and another column vary within a key.
C8_Witness ==
    /\ OtherColumnVaries
    /\ ppc = "failed_assert_complementar"
    /\ cols_exploded.cols = <<ColLei, ColPenal>>

\* A value that stands for "no value": a true null or a placeholder token.
IsPlaceholderOrNull(c) ==
    c.t = "null" \/ (c.t = "str" /\ c.s \in NULLS_PLACEHOLDERS_TO_DROP)

\* The categories a cell of the input contributes to: the elements of a list
\* (native, or serialized in a list column), no value for an empty list, the
\* cell itself otherwise; nulls and placeholders count as "Sem Registro".
CanonicalCategory(c) == IF IsPlaceholderOrNull(c) THEN Str(SemRegistro) ELSE c
CellCategories(c) ==
    IF col_agg \in LIST_COLS_TO_EXPLODE /\ c.t = "list"
    THEN IF c.l = <<>> THEN {Str(SemRegistro)}
         ELSE {CanonicalCategory(c.l[n]) : n \in 1..Len(c.l)}
    ELSE IF col_agg \in LIST_COLS_TO_EXPLODE /\ c = Str("['roubo', 'furto']")
    THEN {Str("roubo"), Str("furto")}
    ELSE {CanonicalCategory(c)}

ResultCategories == {agg_data[j].cat : j \in 1..Len(agg_data)}

\* The input holds a no-value cell, or a list cell with a no-value element.
InputHasNoValue ==
    \E i \in 1..NRows(agg_in) : Str(SemRegistro) \in CellCategories(agg_in.rows[i][col_agg])

\* C9: no category of the result of prepare_agg_data is a placeholder token or
\* a null; every such cell, the placeholder elements of expanded lists
\* included, is counted under the one category "Sem Registro".
C9_PlaceholdersMerged ==
    apc = "done" =>
        /\ \A j \in 1..Len(agg_data) : ~IsPlaceholderOrNull(agg_data[j].cat)
        /\ InputHasNoValue => Str(SemRegistro) \in ResultCategories
        /\ \A j, k \in 1..Len(agg_data) : agg_data[j].cat = agg_data[k].cat => j = k

\* A result for the list column whose input held a list with a placeholder
\* element and a scalar placeholder of another kind.
C9_Witness ==
    /\ apc = "done"
    /\ col_agg = "Tipo Penal"
    /\ \E i, j \in 1..NRows(agg_in) :
         /\ agg_in.rows[i][col_agg] = Lst(<<Str("-"), Str("roubo")>>)
         /\ agg_in.rows[j][col_agg] = Str("nan")
    /\ ResultCategories = {Str(SemRegistro), Str("roubo")}

\* The distinct non-null keys of the input rows that contribute to category k.
KeysOfCategory(k) ==
    {agg_in.rows[i][KEY_COLUMN_PRINCIPAL] :
        i \in {r \in 1..NRows(agg_in) : k \in CellCategories(agg_in.rows[r][col_agg])}}
    \ {Null}

\* C10: the count of a category in the result of prepare_agg_data is the
\* number of distinct keys among the rows of that category, not the number of
\* rows: a key is counted once per category it occurs in.
C10_DistinctKeyCount ==
    apc = "done" =>
        /\ ResultCategories = UNION {CellCategories(agg_in.rows[i][col_agg]) :
                                        i \in 1..NRows(agg_in)}
        /\ \A j \in 1..Len(agg_data) :
             agg_data[j].Contagem = Cardinality(KeysOfCategory(agg_data[j].cat))

\* One key in two rows of the same category, one of them a list cell holding
\* a second category: each category counts that key once.
C10_Witness ==
    /\ apc = "done"
    /\ NRows(agg_in) = 2
    /\ agg_in.rows[1][KEY_COLUMN_PRINCIPAL] = Str("K1")
    /\ agg_in.rows[2][KEY_COLUMN_PRINCIPAL] = Str("K1")
    /\ agg_in.rows[1][col_agg] = Str("roubo")
    /\ agg_in.rows[2][col_agg] = Lst(<<Str("roubo"), Str("furto")>>)
    /\ \E j, k \in 1..Len(agg_data) :
         /\ agg_data[j].cat = Str("roubo") /\ agg_data[j].Contagem = 1
         /\ agg_data[k].cat = Str("furto") /\ agg_data[k].Contagem = 1

(***************************************************************************)
(* Percentages and empty inputs (prepare_agg_data, display_timeseries_tab).*)
(***************************************************************************)
TotalContagem == SumContagem(agg_data, 1)

RECURSIVE SumPercentualNum(_, _)
SumPercentualNum(rows, i) ==
    IF i > Len(rows) THEN 0 ELSE rows[i].Percentual.num + SumPercentualNum(rows, i + 1)

\* C11: whenever prepare_agg_data returns a result with a non-zero count,
\* the percentage of every row is count * 100 / (sum of the counts of the
\* result), and the percentages (all over one denominator) sum to 100.
\* Percentages are exact fractions num / den.
C11_PercentOfResultTotal ==
    (apc = "done" /\ TotalContagem > 0) =>
        /\ \A j \in 1..Len(agg_data) :
             /\ agg_data[j].Percentual.den > 0
             /\ agg_data[j].Percentual.den = agg_data[1].Percentual.den
             /\ agg_data[j].Percentual.num * TotalContagem
                   = agg_data[j].Contagem * 100 * agg_data[j].Percentual.den
        /\ SumPercentualNum(agg_data, 1) = 100 * agg_data[1].Percentual.den

\* A result with two categories of different non-zero counts, one key lying
\* in both of them (2/3 and 1/3 of the total 3).
C11_Witness ==
    /\ apc = "done"
    /\ TotalContagem = 3
    /\ nunique(Column(agg_in, KEY_COLUMN_PRINCIPAL)) = 2
    /\ \E j, k \in 1..Len(agg_data) :
         agg_data[j].Contagem = 2 /\ agg_data[k].Contagem = 1

\* C12: on a table with zero rows prepare_agg_data does not raise and returns
\* no category row; whenever the total count of a result is 0 every
\* percentage is 0; on a table with zero rows the time bucketer stops at its
\* early return with no bucket row.
C12_EmptyInputIsSafe ==
    /\ (apc # "idle" /\ NRows(agg_in) = 0) =>
          /\ apc # "raised"
          /\ agg_data = <<>>
    /\ (apc = "done" /\ TotalContagem = 0) =>
          \A j \in 1..Len(agg_data) : IsZero(agg_data[j].Percentual)
    /\ (tpc # "idle" /\ NRows(time_in) = 0) =>
          /\ tpc \in {"start", "empty"}
          /\ time_series_data = <<>>

\* prepare_agg_data has returned on a table with zero rows.
C12_Witness == apc = "done" /\ NRows(agg_in) = 0 /\ col_agg \in LIST_COLS_TO_EXPLODE

\* A result whose categories all count 0 (every key is null).
C12_WitnessZeroTotal == apc = "done" /\ Len(agg_data) > 0 /\ TotalContagem = 0

\* The time bucketer has returned early on a table with zero rows.
C12_WitnessTime == tpc = "empty" /\ NRows(time_in) = 0

(***************************************************************************)
(* The list-column expander of prepare_agg_data.                           *)
(***************************************************************************)
\* The list column holds a string cell of the form '[...]'.
HoldsSerializedList ==
    /\ col_agg \in LIST_COLS_TO_EXPLODE
    /\ \E i \in 1..NRows(agg_in) :
         /\ agg_in.rows[i][col_agg].t = "str"
         /\ StartsWithBracket(agg_in.rows[i][col_agg].s)
         /\ EndsWithBracket(agg_in.rows[i][col_agg].s)

\* The string cells the literal parser cannot parse.
UnparsableString(c) == c.t = "str" /\ literal_eval(c.s).raised

\* C13: when the list column holds a string cell that starts with '[' and
\* ends with ']', the expander completes without raising and every string
\* cell the literal parser cannot parse is still there as its original
\* string.
C13_UnparsableLeftAsIs ==
    (HoldsSerializedList /\ apc \notin {"idle", "start"}) =>
        /\ apc # "raised"
        /\ apc = "expanded" =>
              \A i \in 1..NRows(agg_in) :
                  UnparsableString(agg_in.rows[i][col_agg]) =>
                      \E k \in 1..NRows(df_agg) :
                          df_agg.rows[k][col_agg] = agg_in.rows[i][col_agg]

\* The cell of source row i after the parse step.
ParsedCell(i) ==
    LET c == agg_in.rows[i][col_agg]
    IN IF HoldsSerializedList /\ c.t = "str" /\ StartsWithBracket(c.s)
       THEN literal_eval(c.s).value ELSE c

\* After the parse step some cell of the list column is a genuine list.
HoldsList ==
    /\ col_agg \in LIST_COLS_TO_EXPLODE
    /\ \E i \in 1..NRows(agg_in) : ParsedCell(i).t = "list"

\* The rows source row i yields: one per element of its list, and one for
\* an empty list, a scalar or a null.
Width(i) ==
    IF ParsedCell(i).t = "list" /\ Len(ParsedCell(i).l) > 0
    THEN Len(ParsedCell(i).l) ELSE 1

\* As C14 states it: one row per list element, so none for an empty list.
WidthPerElement(i) ==
    IF ParsedCell(i).t = "list" THEN Len(ParsedCell(i).l) ELSE 1

RECURSIVE Offset(_)
Offset(i) == IF i = 1 THEN 0 ELSE Offset(i - 1) + Width(i - 1)

RECURSIVE OffsetPerElement(_)
OffsetPerElement(i) ==
    IF i = 1 THEN 0 ELSE OffsetPerElement(i - 1) + WidthPerElement(i - 1)

\* The value of the list column in the j-th row that source row i yields.
ExpandedCell(i, j) ==
    LET c == ParsedCell(i)
    IN IF c.t = "list" THEN (IF Len(c.l) = 0 THEN Null ELSE c.l[j]) ELSE c

C14_WitnessEmptyList ==
    /\ apc = "expanded" /\ HoldsList
    /\ NRows(agg_in) = 2 /\ NRows(df_agg) = 2
    /\ agg_in.rows[1][col_agg] = Lst(<<>>)
    /\ df_agg.rows[1][col_agg] = Null

\* Every cell of the column is a scalar or a null: no list, no string of the
\* form '[...]'.
ScalarOnly ==
    \A i \in 1..NRows(agg_in) :
        LET c == agg_in.rows[i][col_agg]
        IN /\ c.t # "list"
           /\ ~(c.t = "str" /\ StartsWithBracket(c.s) /\ EndsWithBracket(c.s))

\* C15: on a column of scalars and nulls the expander step raises nothing,
\* emits no note and leaves the table as the input: same rows, same order,
\* same values.
C15_ScalarOnlyIsNoOp ==
    (ScalarOnly /\ apc \notin {"idle", "start"}) =>
        /\ apc # "raised"
        /\ note = ""
        /\ apc = "expanded" => df_agg = agg_in

\* The expander has run on a list column of two scalar cells, one of them a
\* string that only starts with '['.
C15_Witness ==
    /\ apc = "expanded" /\ ScalarOnly
    /\ col_agg \in LIST_COLS_TO_EXPLODE
    /\ NRows(agg_in) = 2
    /\ agg_in.rows[1][col_agg] = Str("[abc")
    /\ agg_in.rows[2][col_agg] = Null

(***************************************************************************)
(* The time bucketer of display_timeseries_tab.                            *)
(***************************************************************************)
Segmented == segment_col # NoSegment

\* The whole bucketer on table T under the current selections.
TimeSeriesOf(T) ==
    LET keep == cols_to_keep(date_col, segment_col)
        D == dropna_subset(filter_columns(T, keep), keep)
    IN IF NRows(D) = 0 THEN <<>>
       ELSE IF Segmented
       THEN bucket_segmented(D, date_col, granularity_map(granularity), segment_col)
       ELSE bucket_total(D, date_col, granularity_map(granularity))

\* A row with no date, or with no segment when segmentation is requested.
Undated(r) == r[date_col].t = "null"
Unsegmented(r) == Segmented /\ r[segment_col].t = "null"

\* The input without its undated and unsegmented rows.
WithoutNullRows ==
    [time_in EXCEPT !.rows =
        SelectSeq(time_in.rows, LAMBDA r : ~Undated(r) /\ ~Unsegmented(r))]

\* C16: rows with a null date, or a null segment under segmentation,
\* contribute to no bucket: the result is the one the bucketer gives on the
\* input without those rows, and every result row stands for the segment of
\* some dated input row, never for a null.
C16_NullRowsInNoBucket ==
    tpc \in {"empty", "done"} =>
        /\ time_series_data = TimeSeriesOf(WithoutNullRows)
        /\ \A j \in 1..Len(time_series_data) :
              LET r == time_series_data[j]
              IN Segmented =>
                    /\ r.Segmento.t # "null"
                    /\ \E i \in 1..NRows(time_in) :
                          /\ ~Undated(time_in.rows[i])
                          /\ time_in.rows[i][segment_col] = r.Segmento

\* A segmented run on an undated row and a complete row: one bucket row.
C16_Witness ==
    /\ tpc = "done" /\ Segmented
    /\ NRows(time_in) = 2
    /\ Undated(time_in.rows[1]) /\ ~Unsegmented(time_in.rows[1])
    /\ Len(time_series_data) = 1
    /\ time_series_data[1].Contagem = 1

\* A segmented run on a dated row with no segment and a complete row.
C16_WitnessNullSegment ==
    /\ tpc = "done" /\ Segmented
    /\ NRows(time_in) = 2
    /\ ~Undated(time_in.rows[1]) /\ Unsegmented(time_in.rows[1])
    /\ time_in.rows[1][KEY_COLUMN_PRINCIPAL] # time_in.rows[2][KEY_COLUMN_PRINCIPAL]
    /\ time_in.rows[1][KEY_COLUMN_PRINCIPAL].t # "null"
    /\ Len(time_series_data) = 1
    /\ time_series_data[1].Contagem = 1

\* The rows the bucketer retains: date, key and (if requested) segment set.
Retained ==
    {i \in 1..NRows(time_in) :
        /\ ~Undated(time_in.rows[i]) /\ ~Unsegmented(time_in.rows[i])
        /\ time_in.rows[i][KEY_COLUMN_PRINCIPAL].t # "null"}

\* The retained rows of bucket b (and of segment s under segmentation).
InBucket(b, s) ==
    {i \in Retained :
        /\ period_end(granularity_map(granularity),
                      DayOfYear(time_in.rows[i][date_col].s)) = b
        /\ Segmented => time_in.rows[i][segment_col] = s}

\* C17: the count of each result row is the number of distinct keys among
\* the retained rows of its bucket (and segment); every bucket (and segment)
\* that holds a retained row has exactly one result row.
C17_DistinctKeysPerBucket ==
    tpc = "done" =>
        /\ \A j \in 1..Len(time_series_data) :
              LET r == time_series_data[j]
              IN r.Contagem =
                    Cardinality({time_in.rows[i][KEY_COLUMN_PRINCIPAL] :
                                    i \in InBucket(r.Periodo, r.Segmento)})
        /\ \A i \in Retained :
              \E j \in 1..Len(time_series_data) :
                  i \in InBucket(time_series_data[j].Periodo, time_series_data[j].Segmento)
        /\ \A j, k \in 1..Len(time_series_data) :
              (/\ time_series_data[j].Periodo = time_series_data[k].Periodo
               /\ time_series_data[j].Segmento = time_series_data[k].Segmento) => j = k

\* Monthly buckets of 2024-01-05, 2024-01-20 and 2024-02-01 with three
\* distinct keys: January 2, February 1.
C17_Witness ==
    /\ tpc = "done" /\ ~Segmented /\ granularity = "Mes"
    /\ time_in = TimeScenario
    /\ Len(time_series_data) = 2
    /\ time_series_data[1].Periodo = DaysBefore(1) + MonthDays[1]
    /\ time_series_data[1].Contagem = 2
    /\ time_series_data[2].Periodo = DaysBefore(2) + MonthDays[2]
    /\ time_series_data[2].Contagem = 1

\* One key in two rows of the same bucket is counted once.
C17_WitnessRepeatedKey ==
    /\ tpc = "done" /\ NRows(time_in) = 2
    /\ Retained = {1, 2}
    /\ time_in.rows[1][KEY_COLUMN_PRINCIPAL] = time_in.rows[2][KEY_COLUMN_PRINCIPAL]
    /\ Len(time_series_data) = 1
    /\ time_series_data[1].Contagem = 1

(***************************************************************************)
(* The column profile and the crosstab candidates.                         *)
(***************************************************************************)
\* C18: on a table with zero rows detect_column_types does not raise and
\* reports, for every column, a null count of 0 and a null percentage of
\* exactly 0.
C18_ZeroRowsZeroPercent ==
    (NRows(profile_in) = 0 /\ fpc \in {"profiled", "raised"}) =>
        /\ fpc = "profiled"
        /\ \A c \in Range(profile_in.cols) :
              /\ column_info.info[c].null_count = 0
              /\ IsZero(column_info.info[c].null_percent)

\* Some column of the table holds a raw list.
HoldsUnhashable(c) == \E i \in 1..NRows(profile_in) : profile_in.rows[i][c].t = "list"

\* C19: a column of unhashable cells crashes neither the profile nor the
\* candidate selection: the profile has every column and the marker as the
\* distinct count of that column; the candidate list leaves the column out.
C19_UnhashableNeverCrashes ==
    \A c \in Range(profile_in.cols) :
        HoldsUnhashable(c) =>
            /\ fpc # "raised"
            /\ fpc = "profiled" =>
                  /\ DOMAIN column_info.info = Range(profile_in.cols)
                  /\ column_info.info[c].unique_count = NotApplicable
            /\ low_cardinality_cols.state # "raised"
            /\ low_cardinality_cols.state = "listed" =>
                  c \notin Range(low_cardinality_cols.cols)

(***************************************************************************)
(* The caller's table across the core operations.                          *)
(***************************************************************************)
\* C20: after any sequence of calls of apply_column_types, prepare_agg_data,
\* create_sidebar, aggregate_column_to_list and the time bucketer on the
\* caller's table, that table has the columns, rows and cell values it had
\* before the first call.
C20_InputNotMutated ==
    last_call # "idle" => heap["caller"] = df_before

\* prepare_agg_data has written a normalised column into its working copy
\* of a non-empty table.
C20_Witness ==
    /\ last_call = "prepare_agg_data"
    /\ NRows(df_before) > 0
    /\ heap["copy"].cols = df_before.cols
    /\ heap["copy"] # df_before

\* apply_column_types has converted a column of its working copy.
C20_WitnessApply ==
    /\ last_call = "apply_column_types"
    /\ heap["copy"].cols = df_before.cols
    /\ heap["copy"] # df_before

\* The sidebar filter and the time bucketer have returned fewer rows than
\* they received.
C20_WitnessSidebar ==
    /\ last_call = "create_sidebar"
    /\ heap["result"].cols = df_before.cols
    /\ NRows(heap["result"]) < NRows(df_before)

C20_WitnessTime ==
    /\ last_call = "display_timeseries_tab"
    /\ NRows(heap["result"]) < NRows(df_before)

\* The pack has merged two rows of the caller's table into one.
C20_WitnessPack ==
    /\ last_call = "aggregate_column_to_list"
    /\ NRows(df_before) = 2 /\ NRows(heap["result"]) = 1

(***************************************************************************)
(* apply_column_types: a second application, the numeric target, the log.  *)
(***************************************************************************)
\* The columns of the table named by the mapping, in mapping order.
MappedPresent ==
    SelectSeq([i \in 1..Len(type_mapping) |-> type_mapping[i][1]],
              LAMBDA c : HasCol(df, c))

\* The log entry of column c, and whether its conversion failed.
EntryOf(log, c) == log[CHOOSE i \in DOMAIN log : log[i].col = c]
Failed(c) == \E i \in DOMAIN conversion_log :
                 conversion_log[i].col = c /\ conversion_log[i].status = "fail"

\* The second application, on the output of the first with the same mapping.
\* No mapped column of the first output holds a non-scalar cell, so no
\* library call of the second application can raise.
SecondRun == apply_column_types(df_typed, type_mapping)

\* C22: a second application with the same mapping leaves, in every column
\* that converted without failure, as many nulls as the first left, and
\* records no lost values for it.
C22_SecondRunAddsNoNull ==
    pc = "done" =>
        \A c \in Range(MappedPresent) :
            /\ \A i \in 1..NRows(df_typed) : df_typed.rows[i][c].t # "list"
            /\ ~Failed(c) =>
                  /\ null_count(Column(SecondRun.df, c)) = null_count(Column(df_typed, c))
                  /\ EntryOf(SecondRun.log, c).status = "ok"

\* The first application lost a value of the numeric column and parsed
\* another; the second finds the numbers and the null as they are.
C22_Witness ==
    /\ pc = "done"
    /\ \E i \in DOMAIN conversion_log :
          /\ conversion_log[i].col = ColDuracao
          /\ conversion_log[i].status = "loss"
    /\ \E i \in 1..NRows(df_typed) : df_typed.rows[i][ColDuracao].t = "num"
    /\ SecondRun.df = df_typed

\* The value numeric parsing gives a cell, case by case.
ParsedNumber(c) ==
    IF c.t = "str" /\ c.s = "10" THEN Num(10)
    ELSE IF c.t = "str" /\ c.s = "20" THEN Num(20)
    ELSE Null

\* C23: in a column mapped to numeric (and converted without failure) every
\* cell that fails parsing is null and every other cell has its parsed value;
\* the log entry reports nulls-after minus nulls-before as lost values when
\* that is more than 0, and plain success otherwise.
C23_NumericLosesOnlyUnparsable ==
    pc = "done" =>
        \A k \in DOMAIN type_mapping :
            LET c == type_mapping[k][1]
            IN (type_mapping[k][2] = "numeric" /\ HasCol(df, c) /\ ~Failed(c)) =>
                  LET lost == null_count(Column(df_typed, c)) - null_count(Column(df, c))
                      e == EntryOf(conversion_log, c)
                  IN /\ \A i \in 1..NRows(df) :
                           df_typed.rows[i][c] = ParsedNumber(df.rows[i][c])
                     /\ IF lost > 0 THEN e.status = "loss" /\ e.lost = lost
                        ELSE e.status = "ok"

\* "10", "abc", "20" mapped to numeric: 10, null, 20 and one lost value.
C23_Witness ==
    /\ pc = "done" /\ df = CoerceScenario
    /\ Column(df_typed, ColDuracao) = <<Num(10), Null, Num(20)>>
    /\ \E i \in DOMAIN conversion_log :
          /\ conversion_log[i].col = ColDuracao
          /\ conversion_log[i].target = "numeric"
          /\ conversion_log[i].status = "loss"
          /\ conversion_log[i].lost = 1

\* A column with a null before the conversion and an unparsable value: the
\* lost values are the difference, not the nulls after.
C23_WitnessNullBefore ==
    /\ pc = "done" /\ NRows(df) = 2
    /\ Column(df, ColDuracao) = <<Null, Str("abc")>>
    /\ \E i \in DOMAIN conversion_log :
          /\ conversion_log[i].col = ColDuracao
          /\ conversion_log[i].target = "numeric"
          /\ conversion_log[i].lost = 1

\* C24: the log holds exactly one entry for each mapping key that is a column
\* of the table, in mapping order, and none for an absent key; the table
\* keeps its columns and every column that is not a present mapping key
\* keeps its cells.
C24_OneEntryPerPresentKey ==
    pc = "done" =>
        /\ [i \in DOMAIN conversion_log |-> conversion_log[i].col] = MappedPresent
        /\ df_typed.cols = df.cols
        /\ \A c \in Range(df.cols) :
              c \notin Range(MappedPresent) => Column(df_typed, c) = Column(df, c)

\* A mapping of three keys, the first absent from the table: two entries.
C24_Witness ==
    /\ pc = "done"
    /\ Len(type_mapping) = 3
    /\ ~HasCol(df, type_mapping[1][1])
    /\ Len(conversion_log) = 2
    /\ NRows(df) > 0

\* A mapping whose only key is absent: no entry, the table as it was.
C24_WitnessAbsentOnly ==
    /\ pc = "done"
    /\ Len(type_mapping) = 1 /\ ~HasCol(df, type_mapping[1][1])
    /\ conversion_log = <<>> /\ df_typed = df /\ NRows(df) > 0

(***************************************************************************)
(* The informational note of the list-column expander.                     *)
(***************************************************************************)
\* The parse step ran: some cell is a string of the form '[...]'.
Parsing == HoldsSerializedList
\* The expansion ran: after the parse step some cell is a list.
Expanding == HoldsList

\* C25: a call emits one note at most, and the note tells which of the three
\* cases occurred: lists parsed without expansion, native lists expanded
\* without parsing, or both; no note when neither happened.
C25_NoteTellsTheCase ==
    apc = "expanded" =>
        /\ note \in {"", "parsed", "expanded", "parsed_and_expanded"}
        /\ note = "parsed" <=> (Parsing /\ ~Expanding)
        /\ note = "expanded" <=> (~Parsing /\ Expanding)
        /\ note = "parsed_and_expanded" <=> (Parsing /\ Expanding)
        /\ note = "" <=> (~Parsing /\ ~Expanding)

\* Parsed without expansion: the only serialized cell denotes a tuple of
\* lists, which is not a list.
C25_Witness ==
    /\ apc = "expanded" /\ note = "parsed"
    /\ NRows(agg_in) > 0
    /\ df_agg.rows[1][col_agg].t = "tuple"

\* Expanded without parsing, and both.
C25_WitnessExpanded ==
    /\ apc = "expanded" /\ note = "expanded" /\ NRows(df_agg) > NRows(agg_in)

C25_WitnessBoth ==
    /\ apc = "expanded" /\ note = "parsed_and_expanded" /\ NRows(df_agg) > NRows(agg_in)

\* No note: a list column of scalars.
C25_WitnessNone ==
    /\ apc = "expanded" /\ note = "" /\ col_agg \in LIST_COLS_TO_EXPLODE
    /\ NRows(agg_in) > 0

(***************************************************************************)
(* The value confirm_cols_exploded returns.                                *)
(***************************************************************************)
\* The non-null keys that occur in more than one row of df_complementar.
DuplicatedKeys ==
    {k \in {df_complementar.rows[i][ColKey] : i \in 1..NRows(df_complementar)} \ {Null} :
        Cardinality({i \in 1..NRows(df_complementar) :
                        df_complementar.rows[i][ColKey] = k}) > 1}

\* Column c has more than one distinct value among the rows of key k.
VariesWithin(c, k) ==
    Cardinality({df_complementar.rows[i][c] :
                    i \in {j \in 1..NRows(df_complementar) :
                              df_complementar.rows[j][ColKey] = k}} \ {Null}) > 1

\* The pipeline has called confirm_cols_exploded on df_complementar.
Confirmed == ppc \in {"complementar_ok", "failed_assert_complementar"}

\* C26: confirm_cols_exploded returns a list for every table: the non-key
\* columns with more than one distinct value for some duplicated key, hence
\* the empty list when no key is duplicated.
C26_AlwaysAList ==
    Confirmed =>
        /\ ~cols_exploded.raised
        /\ ~cols_exploded.none
        /\ cols_exploded.cols =
              SelectSeq(df_complementar.cols,
                        LAMBDA c : c # ColKey /\ \E k \in DuplicatedKeys : VariesWithin(c, k))

(***************************************************************************)
(* The rows of a time-series result.                                       *)
(***************************************************************************)
\* The periods that hold a retained row, and the periods from the first to
\* the last retained day.
PopulatedPeriods ==
    {period_end(granularity_map(granularity), DayOfYear(time_in.rows[i][date_col].s)) :
        i \in Retained}
RetainedDays == {DayOfYear(time_in.rows[i][date_col].s) : i \in Retained}
SpannedPeriods ==
    {period_end(granularity_map(granularity), o) :
        o \in {d \in DaysOfYear : \E lo, hi \in RetainedDays : lo <= d /\ d <= hi}}
ResultPeriods == {time_series_data[j].Periodo : j \in 1..Len(time_series_data)}

C27_WitnessSegmented ==
    /\ tpc = "done" /\ Segmented /\ granularity = "Semana"
    /\ NRows(time_in) = 2 /\ Retained = {1, 2}
    /\ [j \in 1..Len(time_series_data) |-> time_series_data[j].Contagem] = <<1, 1>>

(***************************************************************************)
(* The session of the dashboard.                                           *)
(***************************************************************************)
\* The script has run to its end and no interaction is pending.
Displayed == callback = "none" /\ rendered

\* The selection the session holds for column c of the table.
SelectionOf(c) == session_state[filter_key(c)]

\* The rows of the whole table that every non-empty selection accepts.
Satisfying ==
    {i \in 1..NRows(df_tratado) :
        \A c \in Range(df_tratado.cols) :
           SelectionOf(c) # {} => df_tratado.rows[i][c] \in SelectionOf(c)}
NthSatisfying(k) ==
    CHOOSE i \in Satisfying : Cardinality({j \in Satisfying : j <= i}) = k

\* C21: the filtered table holds exactly the rows of the input that every
\* column with a non-empty selection accepts, in the input's order; with
\* every selection empty it is the input table.
C21_FilteredIsConjunction ==
    Displayed =>
       /\ df_filtered.cols = df_tratado.cols
       /\ df_filtered.rows =
             [k \in 1..Cardinality(Satisfying) |-> df_tratado.rows[NthSatisfying(k)]]
       /\ (\A c \in Range(df_tratado.cols) : SelectionOf(c) = {})
             => df_filtered = df_tratado
C21_Witness ==
    /\ Displayed
    /\ \A c \in Range(df_tratado.cols) : SelectionOf(c) # {}
    /\ NRows(df_filtered) = 1 /\ NRows(df_tratado) = 2
C21_WitnessAllEmpty ==
    /\ Displayed
    /\ \A c \in Range(df_tratado.cols) : SelectionOf(c) = {}
    /\ NRows(df_filtered) = 2
    /\ \E i \in 1..2 : isna(df_tratado.rows[i]["Situacao"])

\* The workbook the session offers for download, if any.
Offered == ~session_state["excel_file"].none

\* C28: whenever the session holds a workbook, it is the export of the table
\* the tab displays (current filters, columns, sort column and order).
C28_ExcelIsCurrentTable ==
    (Displayed /\ Offered) => session_state["excel_file"] = to_excel(df_shown)

\* Every key with the prefix filter_ holds the empty list.
FiltersEmpty == \A k \in filter_keys(session_state) : session_state[k] = {}

\* C29: after clear_filters every filter_ key holds [], the key of the
\* column selection is gone and excel_file is None; on every later run the
\* filter keys stay empty and the filtered table is the whole table, until
\* the user selects a value.
C29_ClearedStaysCleared ==
    /\ callback = "clear_filters" =>
          /\ FiltersEmpty
          /\ "multiselect_columns" \notin DOMAIN session_state
          /\ session_state["excel_file"] = NoExcel
    /\ (cleared /\ Displayed) => (FiltersEmpty /\ df_filtered = df_tratado)
C29_Witness ==
    /\ callback = "clear_filters"
    /\ {filter_key(c) : c \in DefaultFilterColumns} \subseteq filter_keys(session_state)
    /\ NRows(df_filtered) < NRows(df_tratado)
C29_WitnessLaterRun ==
    /\ cleared /\ Displayed /\ Offered
    /\ NRows(df_filtered) = 2
    /\ \E i \in 1..2 : df_tratado.rows[i]["Situacao"] # Str("Em Andamento")

(***************************************************************************)
(* The session of main.py.                                                 *)
(***************************************************************************)
\* C30: types_configured = True implies file_loaded = True and df_final is
\* the result of apply_column_types on the df_original the session holds.
C30_ConfiguredFromCurrentFile ==
    main_state.types_configured =>
       /\ main_state.file_loaded
       /\ ~main_state.df_original.none /\ ~main_state.df_final.none
       /\ \E M \in MainMappings :
             main_state.df_final.df \in ApplyOutcomes(main_state.df_original.df, M)
C30_Witness ==
    /\ main_state.types_configured
    /\ main_state.df_final.df # main_state.df_original.df
    /\ NRows(main_state.df_original.df) = 2
C30_WitnessStaleInfo ==
    /\ main_state.types_configured
    /\ main_state.column_info.cols # main_state.df_original.df.cols

====
